---------------------------- MODULE Spec2Model ----------------------------
(***************************************************************************)
(* A model of the rust-psx core: the MIPS R3000A interpreter of cpu.rs,    *)
(* the memory-management unit of mmu.rs and the timer stub of timers.rs.   *)
(*                                                                         *)
(* A 32-bit value (Rust u32) is the pair <<h, l>> of its upper and lower   *)
(* 16-bit halves, each in 0..65535: TLC's integers are 32-bit signed and   *)
(* cannot hold 0xBFC00000.  All arithmetic on words is modulo 2^32.        *)
(* A panic of the Rust code is the flag fatal: the process ends there,     *)
(* with the state as it was when the panic was raised.                     *)
(***************************************************************************)
EXTENDS Integers, Sequences, FiniteSets, TLC

VARIABLES
    registers,          \* CPU.registers: [u32; 32]
    current_pc,         \* CPU.current_pc
    pc,                 \* CPU.pc
    next_pc,            \* CPU.next_pc
    hi,                 \* CPU.hi
    lo,                 \* CPU.lo
    next_load,          \* CPU.next_load: (register, value)
    instruction_cache,  \* CPU.instruction_cache: [InstructionCacheLine; 256],
                        \* the lines that were assigned since construction
    cop0,               \* CPU.cop0: Coprocessor {status, cause, epc}
    bios,               \* MMU.bios: Vec<u8>
    ram,                \* MMU.ram, the bytes that differ from 0 or were written
    memory_control,     \* MMU.memory_control: [u32; 9]
    ram_size,           \* MMU.ram_size
    cache_control,      \* MMU.cache_control
    interrupt_status,   \* MMU.interrupt_status: u16
    interrupt_mask,     \* MMU.interrupt_mask: u16
    timers,             \* MMU.timers.timers: [Timer; 3]
    fatal,              \* the process has panicked
    last,               \* history: the latest operation and the one before
    fetch_log,          \* history: the words fetched through the cache
    steps               \* history: the number of operations performed

cpu_vars == <<registers, current_pc, pc, next_pc, hi, lo, next_load,
              instruction_cache, cop0>>
mmu_vars == <<bios, ram, memory_control, ram_size, cache_control,
              interrupt_status, interrupt_mask, timers>>
vars == <<cpu_vars, mmu_vars, fatal, last, fetch_log, steps>>

----------------------------------------------------------------------------
(* 32-bit words as pairs of 16-bit halves.                                 *)

W(h, l) == <<h, l>>
Zero == <<0, 0>>
Ones == <<65535, 65535>>
\* A small natural number as a word.
Nat2W(n) == <<n \div 65536, n % 65536>>
\* A word below 2^31 as a natural number.
W2Nat(w) == w[1] * 65536 + w[2]

\* u32::wrapping_add
WAdd(a, b) ==
    LET l == a[2] + b[2]
    IN  <<(a[1] + b[1] + (l \div 65536)) % 65536, l % 65536>>

\* u32::wrapping_sub
WSub(a, b) ==
    LET l == a[2] - b[2]
        borrow == IF l < 0 THEN 1 ELSE 0
    IN  <<(a[1] - b[1] - borrow + 65536) % 65536, (l + 65536) % 65536>>

\* Unsigned comparisons of u32 values.
WLt(a, b) == a[1] < b[1] \/ (a[1] = b[1] /\ a[2] < b[2])
WLe(a, b) == a = b \/ WLt(a, b)

\* The sign of a word read as i32, and the signed comparison.
IsNeg(w) == w[1] >= 32768
SLt(a, b) ==
    WLt(<<(a[1] + 32768) % 65536, a[2]>>, <<(b[1] + 32768) % 65536, b[2]>>)

RECURSIVE BitAnd(_, _)
BitAnd(a, b) ==
    IF a = 0 \/ b = 0 THEN 0
    ELSE (a % 2) * (b % 2) + 2 * BitAnd(a \div 2, b \div 2)

RECURSIVE BitOr(_, _)
BitOr(a, b) ==
    IF a = 0 THEN b
    ELSE IF b = 0 THEN a
    ELSE (IF a % 2 = 1 \/ b % 2 = 1 THEN 1 ELSE 0)
         + 2 * BitOr(a \div 2, b \div 2)

\* a & b, a | b and !a on u32.
WAnd(a, b) == <<BitAnd(a[1], b[1]), BitAnd(a[2], b[2])>>
WOr(a, b) == <<BitOr(a[1], b[1]), BitOr(a[2], b[2])>>
WNot(a) == <<65535 - a[1], 65535 - a[2]>>

\* a << k, for k in 0..31.
WShl(w, k) ==
    IF k >= 16 THEN <<(w[2] * 2^(k - 16)) % 65536, 0>>
    ELSE LET l == w[2] * 2^k
         IN  <<(w[1] * 2^k + (l \div 65536)) % 65536, l % 65536>>

\* a >> k on u32 (logical), for k in 0..31.
WShr(w, k) ==
    IF k >= 16 THEN <<0, w[1] \div 2^(k - 16)>>
    ELSE <<w[1] \div 2^k, (w[2] \div 2^k) + (w[1] % 2^k) * 2^(16 - k)>>

\* (a as i32) >> k (arithmetic), for k in 0..31.
WSar(w, k) ==
    IF IsNeg(w) /\ k > 0 THEN WOr(WShr(w, k), WShl(Ones, 32 - k))
    ELSE WShr(w, k)

\* The byte i (0 = least significant) of a word: (value >> (i * 8)) as u8.
ByteOf(w, i) ==
    CASE i = 0 -> w[2] % 256
      [] i = 1 -> w[2] \div 256
      [] i = 2 -> w[1] % 256
      [] i = 3 -> w[1] \div 256

\* The word whose little-endian bytes are b0, b1, b2, b3.
FromBytes(b0, b1, b2, b3) == <<b2 + 256 * b3, b0 + 256 * b1>>

\* i32::checked_add and i32::checked_sub: the wrapped result, and whether
\* the exact result does not fit an i32.
AddOverflows(a, b) ==
    IsNeg(a) = IsNeg(b) /\ IsNeg(WAdd(a, b)) # IsNeg(a)
SubOverflows(a, b) ==
    IsNeg(a) # IsNeg(b) /\ IsNeg(WSub(a, b)) # IsNeg(a)

\* Unsigned division by a non-zero word, bit by bit from the top:
\* u32 division by a denominator below 2^16: long division of the four
\* bytes of n, most significant first.
DivShort(n, dl) ==
    LET t3 == ByteOf(n, 3)
        t2 == (t3 % dl) * 256 + ByteOf(n, 2)
        t1 == (t2 % dl) * 256 + ByteOf(n, 1)
        t0 == (t1 % dl) * 256 + ByteOf(n, 0)
    IN  [q |-> FromBytes(t0 \div dl, t1 \div dl, t2 \div dl, t3 \div dl),
         r |-> <<0, t0 % dl>>]

\* d * k modulo 2^32, for k below 2^16.
MulShort(d, k) ==
    LET l0 == d[2] * (k % 256)
        l1 == d[2] * (k \div 256)
        low == l0 + (l1 % 256) * 256
        high == d[1] * (k % 256) + (d[1] * (k \div 256) % 256) * 256
                + (l1 \div 256) + (low \div 65536)
    IN  <<high % 65536, low % 65536>>

\* One more subtraction of d, when the remainder still holds it.
Reduce(qr, d) ==
    IF WLe(d, qr.r) THEN [q |-> qr.q + 1, r |-> WSub(qr.r, d)] ELSE qr

\* u32 division by a denominator of at least 2^16: the quotient of the
\* operands shifted right by two, the denominator rounded up, is at most
\* four below the quotient.
DivLong(n, d) ==
    LET estimate == (n[1] * 16384 + n[2] \div 4)
                    \div (d[1] * 16384 + d[2] \div 4 + 1)
        first == [q |-> estimate, r |-> WSub(n, MulShort(d, estimate))]
        qr == Reduce(Reduce(Reduce(Reduce(first, d), d), d), d)
    IN  [q |-> <<0, qr.q>>, r |-> qr.r]

\* UDivMod(n, d) is [q |-> n / d, r |-> n % d] on u32, for d # 0.
UDivMod(n, d) == IF d[1] = 0 THEN DivShort(n, d[2]) ELSE DivLong(n, d)

\* The magnitude of a word read as i32, and the negation.
WNeg(a) == WSub(Zero, a)
WAbs(a) == IF IsNeg(a) THEN WNeg(a) ELSE a

\* i32 division and remainder, truncated toward zero (Rust / and %).
SDiv(n, d) ==
    LET m == UDivMod(WAbs(n), WAbs(d)).q
    IN  IF IsNeg(n) # IsNeg(d) THEN WNeg(m) ELSE m
\* A remainder that is never negative.
SRem_NonNegative(n, d) == UDivMod(WAbs(n), WAbs(d)).r

SRem(n, d) ==
    LET m == UDivMod(WAbs(n), WAbs(d)).r
    IN  IF IsNeg(n) THEN WNeg(m) ELSE m

----------------------------------------------------------------------------
(* struct Instruction: the fields of an instruction word.                  *)

opcode(i) == i[1] \div 1024
secondary_opcode(i) == i[2] % 64
immediate(i) == <<0, i[2]>>
immediate_sign_extended(i) == <<IF i[2] >= 32768 THEN 65535 ELSE 0, i[2]>>
t(i) == i[1] % 32
s(i) == (i[1] \div 32) % 32
d(i) == i[2] \div 2048
coprocessor_opcode(i) == s(i)
immediate_shift(i) == (i[2] \div 64) % 32
immediate_jump(i) == WShl(<<i[1] % 1024, i[2]>>, 2)


----------------------------------------------------------------------------
(* mmu.rs: the address map.                                                *)

RAM_START == Zero
RAM_SIZE == 2097152
RAM_END == WAdd(RAM_START, Nat2W(RAM_SIZE))
EXPANSION_1_START == <<7936, 0>>          \* 0x1F000000
EXPANSION_1_SIZE == 8388608
EXPANSION_1_END == WAdd(EXPANSION_1_START, Nat2W(EXPANSION_1_SIZE))
IO_START == <<8064, 4096>>                \* 0x1F801000
EXPANSION_2_START == <<8064, 8192>>       \* 0x1F802000
EXPANSION_2_SIZE == 66
EXPANSION_2_END == WAdd(EXPANSION_2_START, Nat2W(EXPANSION_2_SIZE))
BIOS_START == <<8128, 0>>                 \* 0x1FC00000
BIOS_SIZE == 524288
BIOS_END == WAdd(BIOS_START, Nat2W(BIOS_SIZE))

\* A match arm lo..hi (hi excluded) and lo..=hi (hi included).
InRange(a, from, to) == WLe(from, a) /\ WLt(a, to)
InRangeIncl(a, from, to) == WLe(from, a) /\ WLe(a, to)

\* A segment table whose KSEG1 entry keeps bit 29 of the address.
MEMORY_REGION_MASK_KSEG1Unmasked(address) ==
    LET index == address[1] \div 8192
    IN  CASE index = 4 -> <<address[1] % 32768, address[2]>>
          [] index = 5 -> <<address[1] % 16384, address[2]>>
          [] OTHER -> address

\* address & MEMORY_REGION_MASK[address >> 29]
MEMORY_REGION_MASK(address) ==
    LET index == address[1] \div 8192
    IN  CASE index = 4 -> <<address[1] % 32768, address[2]>>   \* & 0x7FFFFFFF
          [] index = 5 -> <<address[1] % 8192, address[2]>>    \* & 0x1FFFFFFF
          [] OTHER -> address                                  \* & 0xFFFFFFFF

is_instruction_cache_enabled(m) == (m.cache_control[2] \div 2048) % 2 = 1
is_instruction_cache_tag_test_mode(m) == (m.cache_control[2] \div 4) % 2 = 1

\* The outcome of a read: a value, or a panic.
Value(v) == [ok |-> TRUE, value |-> v]
\* A read that answers 0 where the code panics.
Panic_ReadsZero == Value(Zero)

Panic == [ok |-> FALSE, value |-> Zero]

\* self.ram[a], a byte never written being 0.
RamByte(r, a) == IF a \in DOMAIN r THEN r[a] ELSE 0
RamWrite(r, a, b) ==
    [x \in DOMAIN r \cup {a} |-> IF x = a THEN b ELSE r[x]]

\* for i in 0..size { word |= (source[i] as u32) << (i * 8) }
Assemble(b0, b1, b2, b3, size) ==
    FromBytes(b0,
              IF size > 1 THEN b1 ELSE 0,
              IF size > 2 THEN b2 ELSE 0,
              IF size > 3 THEN b3 ELSE 0)

\* Timers::read
timers_read(m, address) == Panic

\* MMU::read.  The source slice is always four bytes long, whatever the
\* size, and slicing beyond the end of the RAM or of the BIOS vector panics.
mmu_read(m, addr, size) ==
    LET address == MEMORY_REGION_MASK(addr)
    IN  IF size > 1 /\ address = <<8064, 4208>> THEN            \* 0x1F801070
            Value(<<0, m.interrupt_status>>)
        ELSE IF size > 1 /\ address = <<8064, 4212>> THEN       \* 0x1F801074
            Value(<<0, m.interrupt_mask>>)
        ELSE IF size > 1 /\ InRange(address, <<8064, 4224>>, <<8064, 4352>>) THEN
            Value(Zero)                                         \* DMA
        ELSE IF size > 1 /\ InRange(address, <<8064, 7168>>, <<8064, 7808>>) THEN
            Value(Zero)                                         \* SPU
        ELSE IF size > 1 /\ InRange(address, <<8064, 4352>>, <<8064, 4399>>) THEN
            timers_read(m, WSub(address, <<8064, 4352>>))
        ELSE IF InRange(address, RAM_START, RAM_END) THEN
            LET offset == W2Nat(address)
            IN  IF offset + 4 > RAM_SIZE THEN Panic
                ELSE Value(Assemble(RamByte(m.ram, offset),
                                    RamByte(m.ram, offset + 1),
                                    RamByte(m.ram, offset + 2),
                                    RamByte(m.ram, offset + 3), size))
        ELSE IF InRange(address, BIOS_START, BIOS_END) THEN
            LET offset == W2Nat(WSub(address, BIOS_START))
            IN  IF offset + 4 > Len(m.bios) THEN Panic
                ELSE Value(Assemble(m.bios[offset + 1], m.bios[offset + 2],
                                    m.bios[offset + 3], m.bios[offset + 4],
                                    size))
        ELSE IF InRange(address, EXPANSION_1_START, EXPANSION_1_END) THEN
            Value(Ones)
        ELSE Panic

\* Timers::write
timers_write(m, address, value) ==
    LET timer_index == address \div 16
    IN  IF address % 4 = 0 THEN
            [m EXCEPT !.timers[timer_index].counter = value[2]]
        ELSE IF address % 4 = 8 THEN
            [m EXCEPT !.timers[timer_index].target = value[2]]
        ELSE [m EXCEPT !.fatal = TRUE]

\* The RAM arm of MMU::write: the bytes are stored one by one, and the
\* index that leaves the RAM panics after the earlier bytes were stored.
RECURSIVE ram_store(_, _, _, _, _)
ram_store(m, address, size, value, i) ==
    IF i = size THEN m
    ELSE IF address + i >= RAM_SIZE THEN [m EXCEPT !.fatal = TRUE]
    ELSE ram_store([m EXCEPT !.ram = RamWrite(m.ram, address + i,
                                              ByteOf(value, i))],
                   address, size, value, i + 1)

\* MMU::write
mmu_write(m, addr, size, value) ==
    LET address == MEMORY_REGION_MASK(addr)
    IN  IF InRange(address, RAM_START, RAM_END) THEN
            ram_store(m, W2Nat(address), size, value, 0)
        ELSE IF InRange(address, EXPANSION_1_START, EXPANSION_1_END) THEN
            [m EXCEPT !.fatal = TRUE]
        \* 0x1F80100..=0x1F801020, as written: the index is
        \* (address - IO_START) >> 2, which underflows or leaves the array
        \* for every address below IO_START
        ELSE IF InRangeIncl(address, <<504, 256>>, <<8064, 4128>>) THEN
            IF WLt(address, IO_START) THEN [m EXCEPT !.fatal = TRUE]
            ELSE [m EXCEPT !.memory_control[W2Nat(WSub(address, IO_START)) \div 4]
                               = value]
        ELSE IF address = <<8064, 4192>> THEN                   \* 0x1F801060
            [m EXCEPT !.ram_size = value]
        ELSE IF address = <<8064, 4208>> THEN                   \* 0x1F801070
            [m EXCEPT !.interrupt_status = value[2]]
        ELSE IF address = <<8064, 4212>> THEN                   \* 0x1F801074
            [m EXCEPT !.interrupt_mask = value[2]]
        ELSE IF InRange(address, <<8064, 4224>>, <<8064, 4352>>) THEN
            m                                                   \* DMA
        ELSE IF InRange(address, <<8064, 4352>>, <<8064, 4399>>) THEN
            timers_write(m, W2Nat(WSub(address, <<8064, 4352>>)), value)
        ELSE IF InRange(address, <<8064, 7168>>, <<8064, 7808>>) THEN
            m                                                   \* SPU
        ELSE IF InRange(address, EXPANSION_2_START, EXPANSION_2_END) THEN
            m                                                   \* DUART
        ELSE IF address = <<65534, 304>> THEN                   \* 0xFFFE0130
            [m EXCEPT !.cache_control = value]
        ELSE [m EXCEPT !.fatal = TRUE]

\* Timer::step and Timers::step: the counter update is commented out.
timer_step(tm, cycles) == IF tm.use_system_clock THEN tm ELSE tm
timers_step(m, cycles) ==
    [m EXCEPT !.timers = [n \in 0..2 |-> timer_step(m.timers[n], cycles)]]

\* MMU::step
mmu_step(m, cycles) == timers_step(m, cycles)


----------------------------------------------------------------------------
(* cpu.rs: the load-delay slot, the instruction cache and the fetch.  A    *)
(* machine state c is the record of the fields of CPU, of its Coprocessor  *)
(* and of its MMU, with the flag fatal.                                    *)

START_PC == <<49088, 0>>                  \* 0xBFC00000

\* InstructionCacheLine::new
\* A line constructed with every word valid: valid = 0.
InstructionCacheLine_new_AllValid ==
    [valid |-> 0, tag |-> Zero, data |-> [n \in 0..3 |-> Zero]]

InstructionCacheLine_new ==
    [valid |-> 65535, tag |-> Zero, data |-> [n \in 0..3 |-> Zero]]

\* self.instruction_cache[n]: a line never assigned is as constructed.
CacheLine(cache, n) ==
    IF n \in DOMAIN cache THEN cache[n] ELSE InstructionCacheLine_new
\* The 256 lines of the cache.
CacheLines == 0..255

\* A coprocessor that starts with the boot-exception-vector bit of status.
Coprocessor_new_BootVectors ==
    [status |-> <<64, 0>>, cause |-> Zero, epc |-> Zero]

\* Coprocessor::new and Coprocessor::is_cache_isolated
Coprocessor_new == [status |-> Zero, cause |-> Zero, epc |-> Zero]
\* The isolation bit read one position too high: status & 0x20000.
is_cache_isolated_Bit17(cop) == (cop.status[1] \div 2) % 2 = 1

is_cache_isolated(cop) == cop.status[1] % 2 = 1       \* status & 0x10000

\* self.registers[r] = value: an array store, R0 included.
SetReg(c, r, value) == [c EXCEPT !.registers[r] = value]

\* A setup_load that retires the pending load whatever its register.
setup_load_AlwaysRetires(c, register, value) ==
    [SetReg(c, c.next_load[1], c.next_load[2])
        EXCEPT !.next_load = <<register, value>>]

\* CPU::setup_load
setup_load(c, register, value) ==
    LET retired == IF c.next_load[1] # register
                   THEN SetReg(c, c.next_load[1], c.next_load[2])
                   ELSE c
    IN  [retired EXCEPT !.next_load = <<register, value>>]

\* A finish_load that clears the slot without writing the pending value.
finish_load_DropsPending(c) == [c EXCEPT !.next_load = <<0, Zero>>]

\* CPU::finish_load
finish_load(c) ==
    [SetReg(c, c.next_load[1], c.next_load[2]) EXCEPT !.next_load = <<0, Zero>>]

\* The line and the word an address selects, and its tag.
CacheLineOf(address) == (address[2] \div 16) % 256        \* (a >> 4) & 0xFF
CacheIndexOf(address) == (address[2] \div 4) % 4          \* (a >> 2) & 3
CacheTagOf(address) ==                                    \* a & 0x7FFFF000
    <<address[1] % 32768, (address[2] \div 4096) * 4096>>

\* CPU::store_instruction_cache.  cache_line is a copy of the array's
\* element (InstructionCacheLine is Copy): the stores go to the copy, which
\* is dropped, and self.instruction_cache is not assigned.
store_instruction_cache(c, address, value) ==
    LET line == CacheLineOf(address)
        index == CacheIndexOf(address)
        cache_line ==
            IF is_instruction_cache_tag_test_mode(c)
            THEN [CacheLine(c.instruction_cache, line)
                    EXCEPT !.tag = value, !.valid = 4]
            ELSE [CacheLine(c.instruction_cache, line)
                    EXCEPT !.data[index] = value, !.valid = 4]
    IN  c

\* A cached fetch that refills the line from its first word and returns
\* that word, whatever the index of pc in the line.
load_instruction_FromLineStart(c) ==
    IF is_instruction_cache_enabled(c) /\ WLt(c.pc, <<40960, 0>>)
    THEN mmu_read(c, <<c.pc[1], c.pc[2] - (c.pc[2] % 16)>>, 4)
    ELSE mmu_read(c, c.pc, 4)

\* CPU::load_instruction (&self): on a miss the words index..3 are read
\* from the MMU into a copy of the line, and the word asked for is returned
\* from the copy; the array itself is not assigned.
load_instruction(c) ==
    IF is_instruction_cache_enabled(c) /\ WLt(c.pc, <<40960, 0>>) THEN
        LET tag == CacheTagOf(c.pc)
            index == CacheIndexOf(c.pc)
            line == CacheLine(c.instruction_cache, CacheLineOf(c.pc))
            word(n) == mmu_read(c, WAdd(c.pc, Nat2W(4 * (n - index))), 4)
        IN  IF tag # line.tag \/ line.valid > index \/ line.valid > 4 THEN
                IF \A n \in index..3 : word(n).ok
                THEN Value(word(index).value)
                ELSE Panic
            ELSE Value(line.data[index])
    ELSE mmu_read(c, c.pc, 4)

panic(c) == [c EXCEPT !.fatal = TRUE]

----------------------------------------------------------------------------
(* CPU::execute, one operator for each arm of the match.                   *)

R(c, r) == c.registers[r]

SLL(c, i) ==
    LET value == WShl(R(c, t(i)), immediate_shift(i))
    IN  SetReg(finish_load(c), d(i), value)

SRL(c, i) ==
    LET value == WShr(R(c, t(i)), immediate_shift(i))
    IN  SetReg(finish_load(c), d(i), value)

SRA(c, i) ==
    LET value == WSar(R(c, t(i)), immediate_shift(i))
    IN  SetReg(finish_load(c), d(i), value)

SRLV(c, i) ==
    LET value == WShr(R(c, t(i)), R(c, s(i))[2] % 32)
    IN  SetReg(finish_load(c), d(i), value)

JR(c, i) ==
    LET next == R(c, s(i))
    IN  [finish_load(c) EXCEPT !.next_pc = next]

JALR(c, i) ==
    LET return_address == c.next_pc
        jumped == [c EXCEPT !.next_pc = R(c, s(i))]
    IN  SetReg(finish_load(jumped), d(i), return_address)

MFHI(c, i) == SetReg(finish_load(c), d(i), c.hi)

MFLO(c, i) == SetReg(finish_load(c), d(i), c.lo)

DIV(c, i) ==
    LET numerator == R(c, s(i))
        denominator == R(c, t(i))
        c1 == finish_load(c)
    IN  IF denominator = Zero THEN panic(c1)
        ELSE IF denominator = Ones /\ numerator = <<32768, 0>> THEN panic(c1)
        ELSE [c1 EXCEPT !.hi = SRem(numerator, denominator),
                        !.lo = SDiv(numerator, denominator)]

DIVU(c, i) ==
    LET numerator == R(c, s(i))
        denominator == R(c, t(i))
        c1 == finish_load(c)
    IN  IF denominator = Zero THEN panic(c1)
        ELSE LET qr == UDivMod(numerator, denominator)
             IN  [c1 EXCEPT !.hi = qr.r, !.lo = qr.q]

ADD(c, i) ==
    LET a == R(c, s(i))
        b == R(c, t(i))
        c1 == finish_load(c)
    IN  IF AddOverflows(a, b) THEN panic(c1)
        ELSE SetReg(c1, d(i), WAdd(a, b))

ADDU(c, i) ==
    LET value == WAdd(R(c, s(i)), R(c, t(i)))
    IN  SetReg(finish_load(c), d(i), value)

SUB(c, i) ==
    LET a == R(c, s(i))
        b == R(c, t(i))
        c1 == finish_load(c)
    IN  IF SubOverflows(a, b) THEN panic(c1)
        ELSE SetReg(c1, d(i), WSub(a, b))

SUBU(c, i) ==
    LET a == R(c, s(i))
        b == R(c, t(i))
    IN  SetReg(finish_load(c), d(i), WSub(a, b))

AND(c, i) ==
    LET value == WAnd(R(c, s(i)), R(c, t(i)))
    IN  SetReg(finish_load(c), d(i), value)

OR(c, i) ==
    LET value == WOr(R(c, s(i)), R(c, t(i)))
    IN  SetReg(finish_load(c), d(i), value)

SLT(c, i) ==
    LET value == IF SLt(R(c, s(i)), R(c, t(i))) THEN <<0, 1>> ELSE Zero
    IN  SetReg(finish_load(c), d(i), value)

SLTU(c, i) ==
    LET value == IF WLt(R(c, s(i)), R(c, t(i))) THEN <<0, 1>> ELSE Zero
    IN  SetReg(finish_load(c), d(i), value)

\* if value { self.next_pc = self.pc.wrapping_add(immediate << 2) };
\* self.finish_load()
\* A branch whose target is taken from the address of the branch itself.
Branch_FromBranchAddress(c, i, value) ==
    LET target == WAdd(c.current_pc, WShl(immediate_sign_extended(i), 2))
    IN  finish_load(IF value THEN [c EXCEPT !.next_pc = target] ELSE c)

\* The branch arms: next_pc = pc + (immediate << 2) when the condition
\* holds, pc being the address of the delay slot; then finish_load.
Branch(c, i, value) ==
    LET target == WAdd(c.pc, WShl(immediate_sign_extended(i), 2))
    IN  finish_load(IF value THEN [c EXCEPT !.next_pc = target] ELSE c)

BLTZ(c, i) == Branch(c, i, IsNeg(R(c, s(i))))
BGEZ(c, i) == Branch(c, i, ~IsNeg(R(c, s(i))))
BEQ(c, i) == Branch(c, i, R(c, s(i)) = R(c, t(i)))
BNE(c, i) == Branch(c, i, R(c, s(i)) # R(c, t(i)))
\* A BLEZ that is not taken on zero.
BLEZ_StrictlyNegative(c, i) == Branch(c, i, IsNeg(R(c, s(i))))

BLEZ(c, i) == Branch(c, i, IsNeg(R(c, s(i))) \/ R(c, s(i)) = Zero)
BGTZ(c, i) == Branch(c, i, ~IsNeg(R(c, s(i))) /\ R(c, s(i)) # Zero)

\* (self.pc & 0xF0000000) | jump
JumpTarget(c, i) == WOr(<<(c.pc[1] \div 4096) * 4096, 0>>, immediate_jump(i))

J(c, i) == finish_load([c EXCEPT !.next_pc = JumpTarget(c, i)])

\* A JAL that links to its own delay slot.
JAL_LinksDelaySlot(c, i) ==
    LET return_address == c.pc
    IN  SetReg(finish_load([c EXCEPT !.next_pc = JumpTarget(c, i)]),
               31, return_address)

JAL(c, i) ==
    LET return_address == c.next_pc
    IN  SetReg(finish_load([c EXCEPT !.next_pc = JumpTarget(c, i)]),
               31, return_address)

\* An ADDI that wraps instead of panicking.
ADDI_Wrapping(c, i) ==
    LET value == WAdd(R(c, s(i)), immediate_sign_extended(i))
    IN  SetReg(finish_load(c), t(i), value)

ADDI(c, i) ==
    LET a == R(c, s(i))
        c1 == finish_load(c)
    IN  IF AddOverflows(a, immediate_sign_extended(i)) THEN panic(c1)
        ELSE SetReg(c1, t(i), WAdd(a, immediate_sign_extended(i)))

ADDIU(c, i) ==
    LET value == WAdd(R(c, s(i)), immediate_sign_extended(i))
    IN  SetReg(finish_load(c), t(i), value)

SLTI(c, i) ==
    LET value == IF SLt(R(c, s(i)), immediate_sign_extended(i))
                 THEN <<0, 1>> ELSE Zero
    IN  SetReg(finish_load(c), t(i), value)

SLTIU(c, i) ==
    LET value == IF WLt(R(c, s(i)), immediate_sign_extended(i))
                 THEN <<0, 1>> ELSE Zero
    IN  SetReg(finish_load(c), t(i), value)

ANDI(c, i) ==
    LET value == WAnd(R(c, s(i)), immediate(i))
    IN  SetReg(finish_load(c), t(i), value)

ORI(c, i) ==
    LET value == WOr(R(c, s(i)), immediate(i))
    IN  SetReg(finish_load(c), t(i), value)

LUI(c, i) ==
    LET value == WShl(immediate(i), 16)
    IN  SetReg(finish_load(c), t(i), value)

\* The COP0 registers that are accepted and ignored.
IgnoredCop0 == {3, 5, 6, 7, 9, 11}

MFC0(c, i) ==
    LET r == t(i)
        cop0_r == d(i)
    IN  IF cop0_r \in IgnoredCop0 THEN c
        ELSE IF cop0_r = 12 THEN setup_load(c, r, c.cop0.status)
        ELSE panic(c)

\* An MTC0 that writes the whole of cause: cause = value
MTC0_WritesAllOfCause(c, i) ==
    LET cop0_r == d(i)
        value == R(c, t(i))
        c1 == finish_load(c)
    IN  IF cop0_r \in IgnoredCop0 THEN c1
        ELSE IF cop0_r = 12 THEN [c1 EXCEPT !.cop0.status = value]
        ELSE IF cop0_r = 13 THEN [c1 EXCEPT !.cop0.cause = value]
        ELSE panic(c1)

MTC0(c, i) ==
    LET cop0_r == d(i)
        value == R(c, t(i))
        c1 == finish_load(c)
    IN  IF cop0_r \in IgnoredCop0 THEN c1
        ELSE IF cop0_r = 12 THEN [c1 EXCEPT !.cop0.status = value]
        ELSE IF cop0_r = 13 THEN
            [c1 EXCEPT !.cop0.cause =
                WOr(WAnd(c1.cop0.cause, WNot(<<0, 768>>)),
                    WAnd(value, <<0, 768>>))]
        ELSE panic(c1)

\* An RFE that clears the whole mode stack before it refills it:
\* status = (status & !0x3F) | (mode >> 2)
RFE_ClearsBits4And5(c, i) ==
    LET c1 == finish_load(c)
        mode == WAnd(c1.cop0.status, <<0, 63>>)
    IN  [c1 EXCEPT !.cop0.status =
            WOr(WAnd(c1.cop0.status, WNot(<<0, 63>>)), WShr(mode, 2))]

\* status = (status & !0xF) | (mode >> 2), with mode = status & 0x3F
RFE(c, i) ==
    LET c1 == finish_load(c)
        mode == WAnd(c1.cop0.status, <<0, 63>>)
    IN  [c1 EXCEPT !.cop0.status =
            WOr(WAnd(c1.cop0.status, WNot(<<0, 15>>)), WShr(mode, 2))]

COP0(c, i) ==
    CASE coprocessor_opcode(i) = 0 -> MFC0(c, i)
      [] coprocessor_opcode(i) = 4 -> MTC0(c, i)
      [] coprocessor_opcode(i) = 16 -> RFE(c, i)
      [] OTHER -> panic(c)

\* self.registers[s].wrapping_add(immediate)
EffectiveAddress(c, i) == WAdd(R(c, s(i)), immediate_sign_extended(i))

\* value as i8 as u32, value as i16 as u32
SignExtend8(v) ==
    LET b == v[2] % 256
    IN  IF b >= 128 THEN <<65535, 65280 + b>> ELSE <<0, b>>
SignExtend16(v) == <<IF v[2] >= 32768 THEN 65535 ELSE 0, v[2]>>

\* A load: the MMU read, which may panic, then setup_load.
Load(c, i, size, value) ==
    IF mmu_read(c, EffectiveAddress(c, i), size).ok
    THEN setup_load(c, t(i), value)
    ELSE panic(c)

LB(c, i) ==
    Load(c, i, 1, SignExtend8(mmu_read(c, EffectiveAddress(c, i), 1).value))
LH(c, i) ==
    Load(c, i, 2, SignExtend16(mmu_read(c, EffectiveAddress(c, i), 2).value))
LW(c, i) == Load(c, i, 4, mmu_read(c, EffectiveAddress(c, i), 4).value)
LBU(c, i) == Load(c, i, 1, mmu_read(c, EffectiveAddress(c, i), 1).value)
LHU(c, i) == Load(c, i, 2, mmu_read(c, EffectiveAddress(c, i), 2).value)

\* SB, SH and SW: the address and the value are read, the pending load is
\* retired, and the store goes to the instruction cache when the cache is
\* isolated and to the MMU otherwise.
\* A store that goes to the MMU whether or not the cache is isolated.
Store_IgnoringIsolation(c, i, size) ==
    LET address == EffectiveAddress(c, i)
        value == R(c, t(i))
        c1 == finish_load(c)
    IN  mmu_write(c1, address, size, value)

Store(c, i, size) ==
    LET address == EffectiveAddress(c, i)
        value == R(c, t(i))
        c1 == finish_load(c)
    IN  IF is_cache_isolated(c1.cop0)
        THEN store_instruction_cache(c1, address, value)
        ELSE mmu_write(c1, address, size, value)

SB(c, i) == Store(c, i, 1)
SH(c, i) == Store(c, i, 2)
SW(c, i) == Store(c, i, 4)

\* The arms of opcode 0, by secondary opcode.
Special(c, i) ==
    LET f == secondary_opcode(i)
    IN  CASE f = 0 -> SLL(c, i)
          [] f = 2 -> SRL(c, i)
          [] f = 3 -> SRA(c, i)
          [] f = 6 -> SRLV(c, i)
          [] f = 8 -> JR(c, i)
          [] f = 9 -> JALR(c, i)
          [] f = 16 -> MFHI(c, i)
          [] f = 18 -> MFLO(c, i)
          [] f = 26 -> DIV(c, i)
          [] f = 27 -> DIVU(c, i)
          [] f = 32 -> ADD(c, i)
          [] f = 33 -> ADDU(c, i)
          [] f = 34 -> SUB(c, i)
          [] f = 35 -> SUBU(c, i)
          [] f = 36 -> AND(c, i)
          [] f = 37 -> OR(c, i)
          [] f = 42 -> SLT(c, i)
          [] f = 43 -> SLTU(c, i)
          [] OTHER -> panic(c)   \* SSLV, SRAV, SYSCALL, BREAK, MTHI, MTLO,
                                 \* MULT, MULTU, XOR, NOR, invalid

\* The arms of opcode 1, by t.
RegImm(c, i) ==
    CASE t(i) = 0 -> BLTZ(c, i)
      [] t(i) = 1 -> BGEZ(c, i)
      [] OTHER -> panic(c)       \* BLTZAL, BGEZAL, unsupported

\* CPU::execute
execute(c, i) ==
    LET op == opcode(i)
    IN  CASE op = 0 -> Special(c, i)
          [] op = 1 -> RegImm(c, i)
          [] op = 2 -> J(c, i)
          [] op = 3 -> JAL(c, i)
          [] op = 4 -> BEQ(c, i)
          [] op = 5 -> BNE(c, i)
          [] op = 6 -> BLEZ(c, i)
          [] op = 7 -> BGTZ(c, i)
          [] op = 8 -> ADDI(c, i)
          [] op = 9 -> ADDIU(c, i)
          [] op = 10 -> SLTI(c, i)
          [] op = 11 -> SLTIU(c, i)
          [] op = 12 -> ANDI(c, i)
          [] op = 13 -> ORI(c, i)
          [] op = 15 -> LUI(c, i)
          [] op = 16 -> COP0(c, i)
          [] op = 32 -> LB(c, i)
          [] op = 33 -> LH(c, i)
          [] op = 35 -> LW(c, i)
          [] op = 36 -> LBU(c, i)
          [] op = 37 -> LHU(c, i)
          [] op = 40 -> SB(c, i)
          [] op = 41 -> SH(c, i)
          [] op = 43 -> SW(c, i)
          [] OTHER -> panic(c)   \* XORI, COP1..3, LWL, LWR, SWL, SWR,
                                 \* LWCn, SWCn, invalid

\* current_pc = pc; pc = next_pc; next_pc = next_pc.wrapping_add(4)
\* A rotation that leaves next_pc one word further than the code does.
Rotate_SkipsAWord(c) ==
    [c EXCEPT !.current_pc = c.pc,
              !.pc = c.next_pc,
              !.next_pc = WAdd(c.next_pc, <<0, 8>>)]

\* A rotation that forgets to record the address of the instruction.
Rotate_KeepsCurrentPc(c) ==
    [c EXCEPT !.pc = c.next_pc,
              !.next_pc = WAdd(c.next_pc, <<0, 4>>)]

Rotate(c) ==
    [c EXCEPT !.current_pc = c.pc,
              !.pc = c.next_pc,
              !.next_pc = WAdd(c.next_pc, <<0, 4>>)]

\* CPU::step: fetch, rotate, execute, MMU::step(1).
step(c) ==
    LET instruction == load_instruction(c)
    IN  IF ~instruction.ok THEN panic(c)
        ELSE LET done == execute(Rotate(c), instruction.value)
             IN  IF done.fatal THEN done ELSE mmu_step(done, 1)


----------------------------------------------------------------------------
(* Instruction words and BIOS images, the inputs of the model.             *)

\* The encodings that the decoder above takes apart.
EncI(op, rs, rt, imm) == <<op * 1024 + rs * 32 + rt, imm>>
EncR(rs, rt, rd, shamt, funct) == <<rs * 32 + rt, rd * 2048 + shamt * 64 + funct>>
EncJ(op, address) ==
    <<op * 1024 + (address[1] % 4096) \div 4,
      (address[1] % 4) * 16384 + address[2] \div 4>>
EncCop0(sub, rt, rd) == <<16 * 1024 + sub * 32 + rt, rd * 2048>>

NOP == EncR(0, 0, 0, 0, 0)                \* SLL R0, R0, 0

\* The bytes of a sequence of words, least significant byte first.
Image(words) ==
    [k \in 1..(4 * Len(words)) |->
        ByteOf(words[((k - 1) \div 4) + 1], (k - 1) % 4)]

\* The word at byte offset n of START_PC.
At(n) == WAdd(START_PC, Nat2W(n))


\* Every program starts by building the constants the others need:
\* R1 = 0xBFC00000 (the BIOS through KSEG1) and R4 = 0x00010000 (the
\* cache-isolation bit of the COP0 status).
Prologue == <<EncI(15, 0, 1, 49088), EncI(15, 0, 4, 1)>>

\* The instructions the short programs are made of.
Alphabet ==
    { EncI(35, 1, 2, 0),        \* LW    R2, 0(R1)
      EncI(35, 1, 0, 0),        \* LW    R0, 0(R1)
      EncR(2, 0, 3, 0, 33),     \* ADDU  R3, R2, R0
      EncI(9, 0, 2, 7),         \* ADDIU R2, R0, 7
      EncI(9, 0, 0, 5),         \* ADDIU R0, R0, 5
      EncCop0(0, 3, 3),         \* MFC0  R3, $3
      EncCop0(0, 2, 12),        \* MFC0  R2, $12
      EncI(4, 0, 0, 1),         \* BEQ   R0, R0, +1
      EncI(5, 2, 0, 1),         \* BNE   R2, R0, +1
      EncJ(2, At(16)),          \* J     0xBFC00010
      NOP,
      EncCop0(4, 4, 12),        \* MTC0  R4, $12
      EncI(43, 1, 2, 0),        \* SW    R2, 0(R1)
      EncI(40, 0, 3, 1) }       \* SB    R3, 1(R0)

\* The length of the short programs, after the prologue.
ProgLen == 3

ShortPrograms == { Prologue \o body : body \in [1..ProgLen -> Alphabet] }

\* Branch delay slot (spec scenario 3), with a NOP at the branch target.
BranchDelayProgram ==
    << EncI(9, 0, 1, 1),        \* ADDIU R1, R0, 1
       EncI(4, 0, 0, 2),        \* BEQ   R0, R0, +2
       EncI(9, 1, 1, 10),       \* ADDIU R1, R1, 10
       EncI(9, 1, 1, 100),      \* ADDIU R1, R1, 100
       NOP >>

\* Stores with the cache isolated: to Expansion 1, to the BIOS, to RAM, to
\* the interrupt mask, and a store that enables tag-test mode first.
IsolatedStoreProgram ==
    << EncI(15, 0, 1, 1),       \* LUI   R1, 0x0001
       EncI(15, 0, 2, 7936),    \* LUI   R2, 0x1F00
       EncI(15, 0, 3, 65534),   \* LUI   R3, 0xFFFE
       EncI(13, 0, 5, 4),       \* ORI   R5, R0, 4
       EncCop0(4, 1, 12),       \* MTC0  R1, $12
       EncI(43, 2, 2, 0),       \* SW    R2, 0(R2)
       EncI(41, 0, 2, 260),     \* SH    R2, 0x104(R0)
       EncI(40, 2, 1, 32768),   \* SB    R1, -0x8000(R2)
       EncI(43, 3, 5, 304),     \* SW    R5, 0x130(R3)
       EncCop0(4, 0, 12),       \* MTC0  R0, $12
       EncI(43, 3, 5, 304),     \* SW    R5, 0x130(R3)
       EncCop0(4, 1, 12),       \* MTC0  R1, $12
       EncI(43, 0, 2, 36) >>    \* SW    R2, 0x24(R0)

\* A loop in RAM fetched through the instruction cache that overwrites its
\* own first word: 0x0: J 0x0; 0x4: SW R0, 0(R0).
CachedLoopProgram ==
    << EncI(15, 0, 1, 2048),    \* LUI   R1, 0x0800   (the word J 0x0)
       EncI(43, 0, 1, 0),       \* SW    R1, 0(R0)
       EncI(15, 0, 1, 44032),   \* LUI   R1, 0xAC00   (the word SW R0, 0(R0))
       EncI(43, 0, 1, 4),       \* SW    R1, 4(R0)
       EncI(13, 0, 4, 2048),    \* ORI   R4, R0, 0x800
       EncI(15, 0, 5, 65534),   \* LUI   R5, 0xFFFE
       EncR(0, 0, 0, 0, 8),     \* JR    R0
       EncI(43, 5, 4, 304) >>   \* SW    R4, 0x130(R5)

\* JAL + JR round trip (spec scenario): JAL 0xBFC00020 at 0xBFC00000, NOP in
\* its delay slot, and JR R31, NOP at the target.
JalProgram ==
    << EncJ(3, At(32)),         \* JAL   0xBFC00020
       NOP, NOP, NOP, NOP, NOP, NOP, NOP,
       EncR(31, 0, 0, 0, 8),    \* JR    R31
       NOP >>

\* Byte and halfword loads from the BIOS (the bytes C0 BF 01 3C of its first
\* word) and from Expansion 1, one of them through a negative displacement.
SubWordLoadProgram ==
    << EncI(15, 0, 1, 49088),   \* LUI   R1, 0xBFC0
       EncI(15, 0, 2, 7936),    \* LUI   R2, 0x1F00
       EncI(32, 1, 3, 3),       \* LB    R3, 3(R1)
       EncI(32, 1, 3, 1),       \* LB    R3, 1(R1)
       EncI(36, 1, 3, 1),       \* LBU   R3, 1(R1)
       EncI(33, 1, 3, 0),       \* LH    R3, 0(R1)
       EncI(37, 1, 3, 0),       \* LHU   R3, 0(R1)
       EncI(13, 1, 6, 32768),   \* ORI   R6, R1, 0x8000
       EncI(33, 6, 3, 32770),   \* LH    R3, -0x7FFE(R6)
       EncI(32, 2, 3, 0),       \* LB    R3, 0(R2)
       EncI(33, 2, 3, 0),       \* LH    R3, 0(R2)
       EncI(36, 2, 3, 0),       \* LBU   R3, 0(R2)
       EncI(37, 2, 3, 0) >>     \* LHU   R3, 0(R2)

Scenarios ==
    {BranchDelayProgram, IsolatedStoreProgram, CachedLoopProgram, JalProgram,
     SubWordLoadProgram}

\* LUI r, w >> 16; ORI r, r, w & 0xFFFF: the word w in register r.
LoadWord(r, w) == <<EncI(15, 0, r, w[1]), EncI(13, r, r, w[2])>>

\* The operands of the arithmetic and branch programs: 0, 2, i32::MAX,
\* i32::MIN, -1 and -7; the immediates 1, 0x7FFF, -0x8000 and -1; the
\* branch offsets +2 and -1.
Operands ==
    { Zero, <<0, 2>>, <<32767, 65535>>, <<32768, 0>>, Ones, <<65535, 65529>> }
Immediates == {1, 32767, 32768, 65535}
BranchOffsets == {2, 65535}

\* DIV, DIVU, ADD, ADDU, SUB, SUBU R3, R1, R2 and BEQ, BNE R1, R2.
BinaryOps ==
    { EncR(1, 2, 3, 0, f) : f \in {26, 27, 32, 33, 34, 35} }
    \cup { EncI(op, 1, 2, o) : op \in {4, 5}, o \in BranchOffsets }
\* ADDI, ADDIU R3, R1, imm and BLEZ, BGTZ, BLTZ, BGEZ R1.
UnaryOps ==
    { EncI(op, 1, 3, imm) : op \in {8, 9}, imm \in Immediates }
    \cup { EncI(op, 1, 0, o) : op \in {1, 6, 7}, o \in BranchOffsets }
    \cup { EncI(1, 1, 1, o) : o \in BranchOffsets }

\* One instruction on operands built by the program itself, then NOPs.
OperandPrograms ==
    { LoadWord(1, a) \o LoadWord(2, b) \o <<op, NOP, NOP, NOP>> :
        a \in Operands, b \in Operands, op \in BinaryOps }
    \cup { LoadWord(1, a) \o <<op, NOP, NOP, NOP>> :
              a \in Operands, op \in UnaryOps }

\* RFE on a status built by the program, with a load pending.
StatusWords ==
    { <<0, 63>>, <<0, 12>>, <<0, 48>>, <<64, 21>>, <<65534, 65322>>, <<1, 42>> }
RfePrograms ==
    { <<EncI(15, 0, 1, 49088)>>         \* LUI   R1, 0xBFC0
      \o LoadWord(6, w)
      \o << EncCop0(4, 6, 12),          \* MTC0  R6, $12
            EncI(35, 1, 2, 0),          \* LW    R2, 0(R1)
            EncCop0(16, 0, 0),          \* RFE
            NOP >> : w \in StatusWords }

\* A move to or from each of the 32 COP0 registers, after status and cause
\* have been written: cause with all-ones and then with 0x1FF.
Cop0Moves ==
    { EncCop0(4, 1, r) : r \in 0..31 }         \* MTC0  R1, $r
    \cup { EncCop0(0, 3, r) : r \in 0..31 }    \* MFC0  R3, $r
Cop0Programs ==
    { LoadWord(1, Ones)
      \o << EncCop0(4, 1, 13),          \* MTC0  R1, $13
            EncI(13, 0, 2, 511),        \* ORI   R2, R0, 0x1FF
            EncCop0(4, 2, 12),          \* MTC0  R2, $12
            EncCop0(4, 2, 13),          \* MTC0  R2, $13
            move,
            NOP,
            EncR(3, 0, 7, 0, 33) >>     \* ADDU  R7, R3, R0
      : move \in Cop0Moves }

Programs ==
    ShortPrograms \cup Scenarios \cup OperandPrograms \cup RfePrograms
    \cup Cop0Programs

\* The number of CPU steps a run is followed for.
MaxSteps == 14

----------------------------------------------------------------------------
(* The state machine.                                                      *)

\* The machine state as a record, and the record of the history variables.
S == [registers |-> registers, current_pc |-> current_pc, pc |-> pc,
      next_pc |-> next_pc, hi |-> hi, lo |-> lo, next_load |-> next_load,
      instruction_cache |-> instruction_cache, cop0 |-> cop0, bios |-> bios,
      ram |-> ram, memory_control |-> memory_control, ram_size |-> ram_size,
      cache_control |-> cache_control, interrupt_status |-> interrupt_status,
      interrupt_mask |-> interrupt_mask, timers |-> timers, fatal |-> fatal]

\* The variables take the fields of the machine state n.
Becomes(n) ==
    /\ registers' = n.registers
    /\ current_pc' = n.current_pc
    /\ pc' = n.pc
    /\ next_pc' = n.next_pc
    /\ hi' = n.hi
    /\ lo' = n.lo
    /\ next_load' = n.next_load
    /\ instruction_cache' = n.instruction_cache
    /\ cop0' = n.cop0
    /\ bios' = n.bios
    /\ ram' = n.ram
    /\ memory_control' = n.memory_control
    /\ ram_size' = n.ram_size
    /\ cache_control' = n.cache_control
    /\ interrupt_status' = n.interrupt_status
    /\ interrupt_mask' = n.interrupt_mask
    /\ timers' = n.timers
    /\ fatal' = n.fatal

\* Timer::new
Timer_new == [sync_enabled |-> FALSE, counter |-> 0, target |-> 0,
              use_system_clock |-> TRUE]

\* The history of an operation.  Of a CPU step: whether the fetch and the
\* whole step went without a panic, whether the fetch went through the
\* cache, the address and the word fetched, the register file and the
\* next_pc the step started from, whether next_pc was pc + 4 and the cache
\* was isolated when it started, and the pending load it left.  Of a call
\* of MMU::read or MMU::write: its arguments and its result.
NoOp ==
    [op |-> "none", ok |-> TRUE, fetched |-> FALSE, cached |-> FALSE,
     sequential |-> TRUE, isolated |-> FALSE, pc |-> Zero, next_pc |-> Zero,
     instruction |-> Zero, registers |-> [r \in 0..31 |-> Zero],
     pending |-> <<0, Zero>>, address |-> Zero, size |-> 0, value |-> Zero]

\* MMU::new(image) and CPU::new(mmu)
New(image) ==
    /\ registers = [r \in 0..31 |-> Zero]
    /\ current_pc = Zero
    /\ pc = START_PC
    /\ next_pc = WAdd(START_PC, <<0, 4>>)
    /\ hi = Zero
    /\ lo = Zero
    /\ next_load = <<0, Zero>>
    /\ instruction_cache = <<>>
    /\ cop0 = Coprocessor_new
    /\ bios = image
    /\ ram = <<>>
    /\ memory_control = [n \in 0..8 |-> Zero]
    /\ ram_size = Zero
    /\ cache_control = Zero
    /\ interrupt_status = 0
    /\ interrupt_mask = 0
    /\ timers = [n \in 0..2 |-> Timer_new]
    /\ fatal = FALSE
    /\ last = <<NoOp, NoOp>>
    /\ fetch_log = <<>>
    /\ steps = 0

Init == \E program \in Programs : New(Image(program))

\* The fetch of a step goes through the instruction cache.
CachedFetch(c) == is_instruction_cache_enabled(c) /\ WLt(c.pc, <<40960, 0>>)

\* The history record of the step from machine state c to n.
StepRecord(c, n) ==
    [NoOp EXCEPT !.op = "step",
                 !.ok = ~n.fatal,
                 !.fetched = load_instruction(c).ok,
                 !.cached = CachedFetch(c),
                 !.sequential = (c.next_pc = WAdd(c.pc, <<0, 4>>)),
                 !.isolated = is_cache_isolated(c.cop0),
                 !.pc = c.pc,
                 !.next_pc = c.next_pc,
                 !.instruction = load_instruction(c).value,
                 !.registers = c.registers,
                 !.pending = n.next_load]

\* The step h executed SB, SH or SW, and the address and value it stored.
IsStore(h) ==
    h.op = "step" /\ h.fetched /\ opcode(h.instruction) \in {40, 41, 43}
StoreAddress(h) ==
    WAdd(h.registers[s(h.instruction)], immediate_sign_extended(h.instruction))
StoreValue(h) == h.registers[t(h.instruction)]
StoreSize(h) ==
    CASE opcode(h.instruction) = 40 -> 1
      [] opcode(h.instruction) = 41 -> 2
      [] OTHER -> 4

\* The log of the words fetched through the cache, by address: the first
\* word fetched at an address stays until a cache-isolated store to the
\* line of the address, or until the cache is disabled.
NextFetchLog(log, h, n) ==
    LET logged == IF h.fetched /\ h.cached /\ h.pc \notin DOMAIN log
                  THEN [a \in DOMAIN log \cup {h.pc} |->
                           IF a = h.pc THEN h.instruction ELSE log[a]]
                  ELSE log
        dropped == IF IsStore(h) /\ h.ok /\ h.isolated
                   THEN {a \in DOMAIN logged :
                           CacheLineOf(a) = CacheLineOf(StoreAddress(h))}
                   ELSE {}
    IN  IF ~is_instruction_cache_enabled(n) THEN <<>>
        ELSE [a \in DOMAIN logged \ dropped |-> logged[a]]

\* main's loop body: one call of CPU::step.  A panic ends the process.
Step ==
    /\ ~fatal
    /\ steps < MaxSteps
    /\ Becomes(step(S))
    /\ last' = <<StepRecord(S, step(S)), last[1]>>
    /\ fetch_log' = NextFetchLog(fetch_log, StepRecord(S, step(S)), step(S))
    /\ steps' = steps + 1

Next == Step

Spec == Init /\ [][Next]_vars


----------------------------------------------------------------------------
(* What an instruction word reads and writes, by the arms of execute.      *)

\* The registers whose value the arm of instruction i reads.
Sources(i) ==
    LET op == opcode(i)
        f == secondary_opcode(i)
    IN  CASE op = 0 /\ f \in {0, 2, 3} -> {t(i)}
          [] op = 0 /\ f \in {8, 9} -> {s(i)}
          [] op = 0 /\ f \in {6, 26, 27, 32, 33, 34, 35, 36, 37, 42, 43} ->
                {s(i), t(i)}
          [] op = 1 /\ t(i) \in {0, 1} -> {s(i)}
          [] op \in {4, 5} -> {s(i), t(i)}
          [] op \in {6, 7, 8, 9, 10, 11, 12, 13} -> {s(i)}
          [] op = 16 /\ coprocessor_opcode(i) = 4 -> {t(i)}
          [] op \in {32, 33, 35, 36, 37} -> {s(i)}
          [] op \in {40, 41, 43} -> {s(i), t(i)}
          [] OTHER -> {}

\* The instruction is LB, LH, LW, LBU or LHU.
IsLoad(i) == opcode(i) \in {32, 33, 35, 36, 37}
\* The instruction is MFC0.
IsMFC0(i) == opcode(i) = 16 /\ coprocessor_opcode(i) = 0

\* The registers the arm of instruction i writes or schedules a load into.
Targets(i) ==
    LET op == opcode(i)
        f == secondary_opcode(i)
    IN  CASE op = 0 /\ f \in {0, 2, 3, 6, 9, 16, 18, 32, 33, 34, 35, 36, 37,
                              42, 43} -> {d(i)}
          [] op = 3 -> {31}
          [] op \in {8, 9, 10, 11, 12, 13, 15} -> {t(i)}
          [] IsLoad(i) -> {t(i)}
          [] IsMFC0(i) /\ d(i) = 12 -> {t(i)}
          [] OTHER -> {}

\* The step h executed its instruction to the end.
Executed(h) == h.op = "step" /\ h.fetched /\ h.ok

\* The step h wrote next_pc: a jump, or a branch whose condition held.
BranchTaken(h) ==
    LET i == h.instruction
        a == h.registers[s(i)]
        b == h.registers[t(i)]
    IN  CASE opcode(i) = 1 /\ t(i) = 0 -> IsNeg(a)
          [] opcode(i) = 1 /\ t(i) = 1 -> ~IsNeg(a)
          [] opcode(i) = 4 -> a = b
          [] opcode(i) = 5 -> a # b
          [] opcode(i) = 6 -> IsNeg(a) \/ a = Zero
          [] opcode(i) = 7 -> ~IsNeg(a) /\ a # Zero
          [] OTHER -> FALSE
WritesNextPc(h) ==
    \/ opcode(h.instruction) \in {2, 3}
    \/ opcode(h.instruction) = 0 /\ secondary_opcode(h.instruction) \in {8, 9}
    \/ BranchTaken(h)


----------------------------------------------------------------------------
(* The claims about the CPU, checked under Spec.                           *)

\* The instruction the next step executes, when its fetch does not panic.
NextInstruction == load_instruction(S).value
CanFetch == ~fatal /\ load_instruction(S).ok

\* C1: R0 always reads as 0.  Whatever was executed before, destination R0
\* and loads into R0 included, an instruction that is about to execute and
\* reads R0 as a source operand finds the value 0 in it.
C1_R0ReadsZero ==
    (CanFetch /\ 0 \in Sources(NextInstruction)) => registers[0] = Zero

\* The step h executed LW, and the register it loads into.
IsLW(h) == Executed(h) /\ opcode(h.instruction) = 35
LoadTarget(h) == t(h.instruction)
\* The step h executed ADDU Rx, Rt, R0 for the register rt.
IsMoveFrom(h, rt) ==
    /\ Executed(h)
    /\ opcode(h.instruction) = 0 /\ secondary_opcode(h.instruction) = 33
    /\ s(h.instruction) = rt /\ t(h.instruction) = 0

\* C2: load delay, stale read.  After LW Rt, ...; ADDU Rx, Rt, R0 the
\* register Rx holds the value Rt held before the load; and the register
\* file that the instruction following any load into Rt reads from still
\* holds the pre-load value of Rt.
C2_LoadDelayStaleRead ==
    /\ (IsLW(last[2]) /\ IsMoveFrom(last[1], LoadTarget(last[2])))
          => registers[d(last[1].instruction)]
               = last[2].registers[LoadTarget(last[2])]
    /\ (Executed(last[1]) /\ IsLoad(last[1].instruction))
          => registers[LoadTarget(last[1])]
               = last[1].registers[LoadTarget(last[1])]

\* C3: load delay, visible one later.  After LW Rt, ...; <any>, where Rt is
\* not R0 and <any> executes without a fatal error and is not itself an
\* instruction that writes Rt or loads into Rt, the register file that the
\* third instruction reads from holds the value loaded by the LW in Rt.
C3_LoadVisibleOneLater ==
    (/\ IsLW(last[2]) /\ LoadTarget(last[2]) # 0
     /\ Executed(last[1])
     /\ LoadTarget(last[2]) \notin Targets(last[1].instruction))
        => registers[LoadTarget(last[2])] = last[2].pending[2]

\* The step h executed a BEQ whose condition held; the address after the
\* branch and the address it branches to when it is at h.pc and not in a
\* delay slot.
TakenBEQ(h) == Executed(h) /\ opcode(h.instruction) = 4 /\ BranchTaken(h)
DelaySlotOf(h) == WAdd(h.pc, <<0, 4>>)
BranchTargetOf(h) ==
    WAdd(DelaySlotOf(h), WShl(immediate_sign_extended(h.instruction), 2))

\* After all four instructions of the branch-delay program and the one at
\* the branch target have executed, R1 is 11.
BranchDelayScenario ==
    (bios = Image(BranchDelayProgram) /\ steps >= 4) => registers[1] = <<0, 11>>

\* C4, as claimed: after any taken BEQ, the instruction executed next is the
\* one at the address following the branch, it executes once, and the
\* instruction executed after it is the one at the branch target.
C4_DelaySlotOfAnyBEQ ==
    /\ TakenBEQ(last[1]) => pc = DelaySlotOf(last[1])
    /\ (TakenBEQ(last[2]) /\ last[1].op = "step" /\ last[1].fetched)
          => last[1].pc = DelaySlotOf(last[2]) /\ pc = BranchTargetOf(last[2])
    /\ BranchDelayScenario

\* C4, amended: after a taken BEQ that is not itself in the delay slot of a
\* taken jump or branch (next_pc was pc + 4 when it was fetched), the
\* instruction executed next is the one at the address following the
\* branch, it executes once, and the instruction executed after it is the
\* one at the branch target.
C4_DelaySlotOfSequentialBEQ ==
    /\ (TakenBEQ(last[1]) /\ last[1].sequential)
          => pc = DelaySlotOf(last[1]) /\ next_pc = BranchTargetOf(last[1])
    /\ (/\ TakenBEQ(last[2]) /\ last[2].sequential
        /\ last[1].op = "step" /\ last[1].fetched)
          => last[1].pc = DelaySlotOf(last[2]) /\ pc = BranchTargetOf(last[2])
    /\ BranchDelayScenario

\* A taken BEQ was followed by its delay slot, and the branch target, which
\* is not the word after the delay slot, is what executes next.
C4_Witness ==
    /\ TakenBEQ(last[2]) /\ last[2].sequential
    /\ Executed(last[1]) /\ last[1].pc = DelaySlotOf(last[2])
    /\ pc = BranchTargetOf(last[2])
    /\ pc # WAdd(last[1].pc, <<0, 4>>)
    /\ registers[1] = <<0, 11>>

\* The step h executed an instruction that does not write next_pc.
PlainStep(h) == Executed(h) /\ ~WritesNextPc(h)

\* C5, as claimed: after every step that executes an opcode which does not
\* write next_pc, next_pc = current_pc + 8.
C5_NextPcIsCurrentPlus8 ==
    PlainStep(last[1]) => next_pc = WAdd(current_pc, <<0, 8>>)

\* C5, amended: after every step that executes an opcode which does not
\* write next_pc, next_pc is the next_pc of before the step plus 4; that is
\* current_pc + 8 exactly when the step started with next_pc = pc + 4, which
\* it does not in the delay slot of a taken jump or branch.
C5_NextPcAdvancesByOneWord ==
    PlainStep(last[1]) =>
        /\ current_pc = last[1].pc
        /\ pc = last[1].next_pc
        /\ next_pc = WAdd(last[1].next_pc, <<0, 4>>)
        /\ (next_pc = WAdd(current_pc, <<0, 8>>)) <=> last[1].sequential

\* An instruction that does not write next_pc executed in the delay slot of
\* a taken branch or jump.
C5_Witness ==
    /\ PlainStep(last[1]) /\ ~last[1].sequential
    /\ Executed(last[2]) /\ WritesNextPc(last[2])
    /\ next_pc # WAdd(current_pc, <<0, 8>>)

----------------------------------------------------------------------------
(* The instruction cache.                                                  *)

\* C8: I-cache correctness.  While cache-control enables the cache and
\* pc < 0xA0000000, a fetch at an address that was fetched before through
\* the cache, with no cache-isolated store to its line since, returns the
\* word the earlier fetch returned, whatever was stored to RAM in between.
C8_CachedFetchIsStable ==
    (/\ last[1].op = "step" /\ last[1].fetched /\ last[1].cached
     /\ last[1].pc \in DOMAIN fetch_log)
        => last[1].instruction = fetch_log[last[1].pc]

\* The step about to be taken executes SB, SH or SW with the cache isolated.
IsolatedStoreNext ==
    /\ CanFetch
    /\ steps < MaxSteps
    /\ opcode(NextInstruction) \in {40, 41, 43}
    /\ is_cache_isolated(cop0)

\* C9: while COP0 status bit 16 is set, SB, SH and SW never reach the MMU:
\* the step leaves RAM, the memory-control words, ram-size, cache-control,
\* interrupt status and mask and the timers unchanged, and it is not fatal,
\* whatever the address of the store.
C9_IsolatedStoresBypassMMU ==
    [][IsolatedStoreNext => (UNCHANGED mmu_vars /\ ~fatal')]_vars

\* A store executed with the cache isolated, to an address at which a store
\* through the MMU is fatal.
C9_Witness ==
    /\ Executed(last[1]) /\ IsStore(last[1]) /\ last[1].isolated
    /\ mmu_write(S, StoreAddress(last[1]), StoreSize(last[1]),
                 StoreValue(last[1])).fatal

\* C10: a cache-isolated store to address A leaves line (A >> 4) & 0xFF of
\* the instruction cache with valid = 4, and with its tag overwritten by the
\* stored value in tag-test mode, or data[(A >> 2) & 3] overwritten by the
\* stored value otherwise; no other line changes.
C10_IsolatedStoreInvalidatesLine ==
    [][IsolatedStoreNext =>
          LET h == StepRecord(S, step(S))
              A == StoreAddress(h)
              line == CacheLine(instruction_cache', CacheLineOf(A))
          IN  /\ line.valid = 4
              /\ IF is_instruction_cache_tag_test_mode(S)
                 THEN line.tag = StoreValue(h)
                 ELSE line.data[CacheIndexOf(A)] = StoreValue(h)
              /\ \A n \in CacheLines \ {CacheLineOf(A)} :
                    CacheLine(instruction_cache', n)
                      = CacheLine(instruction_cache, n)]_vars

----------------------------------------------------------------------------
(* The MMU on its own: calls of MMU::read and MMU::write, in any order, on *)
(* a machine that has just been constructed.                               *)

\* The physical addresses the calls are made at, each through its three
\* aliases: RAM (aligned, unaligned, the last word and the last byte), the
\* first address after RAM, Expansion 1, memory control, the interrupt
\* status, timer 0, and the BIOS (its first word and its last bytes).
PhysicalAddresses ==
    { <<0, 256>>, <<0, 257>>, <<31, 65532>>, <<31, 65535>>, <<32, 0>>,
      <<7936, 0>>, <<8064, 0>>, <<8064, 4096>>, <<8064, 4132>>,
      <<8064, 4208>>, <<8064, 4352>>, <<8128, 0>>, <<8128, 6>> }

\* The address in KUSEG, KSEG0 and KSEG1 of a physical address below
\* 0x20000000: a, a | 0x80000000, a | 0xA0000000.
Segments == 0..2
Alias(a, k) ==
    CASE k = 0 -> a
      [] k = 1 -> <<a[1] + 32768, a[2]>>
      [] k = 2 -> <<a[1] + 40960, a[2]>>

\* The cache-control register, in KSEG2, has no alias.
CACHE_CONTROL == <<65534, 304>>

\* An address of KSEG2 that is no register: 0xFFFE0000.
KSEG2_OTHER == <<65534, 0>>

\* The target register of timer 0 and the mode register of timer 1:
\* 0x1F801108 and 0x1F801114.
TimerRegisters == { <<8064, 4360>>, <<8064, 4372>> }

Addresses ==
    { Alias(a, k) : a \in PhysicalAddresses, k \in Segments }
    \cup {CACHE_CONTROL, KSEG2_OTHER} \cup TimerRegisters
Sizes == {1, 2, 4}
StoredWords == { <<4386, 13124>> }               \* 0x11223344
MmuBios == << <<4660, 22136>>, <<39612, 57072>> >>   \* 0x12345678 0x9ABCDEF0
MaxCalls == 2

InitMMU == New(Image(MmuBios))

\* A call of MMU::read.
MmuRead(address, size) ==
    /\ ~fatal
    /\ steps < MaxCalls
    /\ fatal' = ~mmu_read(S, address, size).ok
    /\ last' = <<[NoOp EXCEPT !.op = "read",
                              !.ok = mmu_read(S, address, size).ok,
                              !.address = address,
                              !.size = size,
                              !.value = mmu_read(S, address, size).value],
                 NoOp>>
    /\ steps' = steps + 1
    /\ UNCHANGED <<cpu_vars, mmu_vars, fetch_log>>

\* A call of MMU::write.
MmuWrite(address, size, value) ==
    /\ ~fatal
    /\ steps < MaxCalls
    /\ Becomes(mmu_write(S, address, size, value))
    /\ last' = <<[NoOp EXCEPT !.op = "write",
                              !.ok = ~mmu_write(S, address, size, value).fatal,
                              !.address = address,
                              !.size = size,
                              !.value = value],
                 NoOp>>
    /\ steps' = steps + 1
    /\ UNCHANGED fetch_log

NextMMU ==
    \/ \E address \in Addresses, size \in Sizes : MmuRead(address, size)
    \/ \E address \in Addresses, size \in Sizes, value \in StoredWords :
          MmuWrite(address, size, value)

SpecMMU == InitMMU /\ [][NextMMU]_vars

----------------------------------------------------------------------------
(* The claims about the MMU, checked under SpecMMU.                        *)

\* The last call was a write that did not panic, made through segment j at
\* the physical RAM address a.
WroteRam(a, j) ==
    /\ last[1].op = "write" /\ last[1].ok
    /\ last[1].address = Alias(a, j)
    /\ InRange(a, RAM_START, RAM_END)

\* Byte number offset of RAM as a 4-byte read through segment k of the
\* aligned word that holds it returns it.
ObservedByte(m, k, offset) ==
    ByteOf(mmu_read(m, Alias(Nat2W(offset - (offset % 4)), k), 4).value,
           offset % 4)

\* C6: segment mirroring.  For every address below 0x20000000 and every
\* size, MMU::read at the address, at address | 0x80000000 and at
\* address | 0xA0000000 has the same outcome (the same value, or a panic at
\* all three), and every byte written by a write through one of the three
\* aliases of a RAM address is returned by reads through all three.
C6_SegmentMirroring ==
    /\ \A a \in PhysicalAddresses, size \in Sizes, k \in Segments :
          mmu_read(S, Alias(a, k), size) = mmu_read(S, a, size)
    /\ \A a \in PhysicalAddresses, j \in Segments :
          WroteRam(a, j) =>
              \A k \in Segments, n \in 0..(last[1].size - 1) :
                 /\ mmu_read(S, Alias(Nat2W(W2Nat(a) + n - ((W2Nat(a) + n) % 4)), k), 4).ok
                 /\ ObservedByte(S, k, W2Nat(a) + n) = ByteOf(last[1].value, n)

\* 0x11223344 was written at 0x00000100 through KSEG1 and is read back
\* through KUSEG and KSEG0.
C6_Witness ==
    /\ WroteRam(<<0, 256>>, 2) /\ last[1].size = 4
    /\ mmu_read(S, <<0, 256>>, 4) = Value(<<4386, 13124>>)
    /\ mmu_read(S, Alias(<<0, 256>>, 1), 4) = Value(last[1].value)

\* The RAM addresses a of the calls with a + 3 inside RAM, and the bytes
\* b0..b3 written at them.
RamWordAddresses ==
    { a \in PhysicalAddresses :
        InRange(a, RAM_START, RAM_END) /\ W2Nat(a) + 3 < RAM_SIZE }
ByteQuads == { <<68, 51, 34, 17>>, <<255, 0, 128, 1>> }

\* write(a, 1, b0); write(a+1, 1, b1); write(a+2, 1, b2); write(a+3, 1, b3)
WriteBytes(m, a, b) ==
    mmu_write(mmu_write(mmu_write(mmu_write(m, a, 1, <<0, b[1]>>),
                                  WAdd(a, <<0, 1>>), 1, <<0, b[2]>>),
                        WAdd(a, <<0, 2>>), 1, <<0, b[3]>>),
              WAdd(a, <<0, 3>>), 1, <<0, b[4]>>)

\* C7: endian round-trip.  For every RAM address a with a + 3 inside RAM,
\* while the machine runs: after the four 1-byte writes of b0..b3 at a..a+3, read(a, 4) returns
\* b0 | b1 << 8 | b2 << 16 | b3 << 24; and after write(a, 4, v), the 1-byte
\* reads at a, a+1, a+2, a+3 return the bytes of v, least significant first.
C7_EndianRoundTrip ==
    /\ \A a \in RamWordAddresses, b \in ByteQuads :
          ~fatal =>
          /\ ~WriteBytes(S, a, b).fatal
          /\ mmu_read(WriteBytes(S, a, b), a, 4)
               = Value(FromBytes(b[1], b[2], b[3], b[4]))
    /\ \A a \in RamWordAddresses :
          (WroteRam(a, 0) /\ last[1].size = 4) =>
              \A n \in 0..3 :
                 mmu_read(S, WAdd(a, <<0, n>>), 1)
                   = Value(<<0, ByteOf(last[1].value, n)>>)

----------------------------------------------------------------------------
(* Jumps, reset, arithmetic, the MMU's error cases, RFE and the PC         *)
(* pipeline.                                                               *)

\* The step h executed JAL, or JR; the target of a JAL that is not in a
\* delay slot: ((A + 4) & 0xF0000000) | jimm.
IsJAL(h) == Executed(h) /\ opcode(h.instruction) = 3
IsJR(h) ==
    Executed(h) /\ opcode(h.instruction) = 0
                /\ secondary_opcode(h.instruction) = 8
JalTargetOf(h) ==
    WOr(<<(DelaySlotOf(h)[1] \div 4096) * 4096, 0>>,
        immediate_jump(h.instruction))

\* C11: JAL/JR round trip.  A JAL at address A that is not in the delay
\* slot of a taken transfer writes A + 8 to R31 and, after the instruction
\* at A + 4, continues at ((A + 4) & 0xF0000000) | jimm; a JR sets next_pc
\* to the value its register held, and after its delay slot execution
\* continues there.  For JAL 0xBFC00020 at 0xBFC00000 with JR R31 at the
\* target, after four steps pc = 0xBFC00008 and R31 = 0xBFC00008.
C11_JalJrRoundTrip ==
    /\ (IsJAL(last[1]) /\ last[1].sequential)
          => /\ registers[31] = WAdd(last[1].pc, <<0, 8>>)
             /\ pc = DelaySlotOf(last[1])
             /\ next_pc = JalTargetOf(last[1])
    /\ (/\ IsJAL(last[2]) /\ last[2].sequential
        /\ last[1].op = "step" /\ last[1].fetched)
          => last[1].pc = DelaySlotOf(last[2]) /\ pc = JalTargetOf(last[2])
    /\ IsJR(last[1])
          => next_pc = last[1].registers[s(last[1].instruction)]
    /\ (IsJR(last[2]) /\ last[1].op = "step" /\ last[1].fetched)
          => pc = last[2].registers[s(last[2].instruction)]
    /\ (bios = Image(JalProgram) /\ steps = 4)
          => ~fatal /\ pc = At(8) /\ registers[31] = At(8)

\* The four steps of the round trip were taken: JAL, its delay slot, JR R31
\* at the target, its delay slot; execution is back after the JAL.
C11_Witness ==
    /\ bios = Image(JalProgram) /\ steps = 4
    /\ IsJR(last[2]) /\ s(last[2].instruction) = 31 /\ last[2].pc = At(32)
    /\ Executed(last[1])
    /\ pc = At(8) /\ registers[31] = At(8)

\* C12: reset state.  Immediately after construction all 32 registers are
\* 0, HI and LO are 0, pc = 0xBFC00000, next_pc = 0xBFC00004, the pending
\* load is (0, 0), COP0 status, cause and epc are 0, RAM is all zero, and
\* cache-control, interrupt status and mask and the memory-control words
\* are 0.
C12_ResetState ==
    steps = 0 =>
        /\ \A r \in 0..31 : registers[r] = Zero
        /\ hi = Zero /\ lo = Zero
        /\ pc = <<49088, 0>> /\ next_pc = <<49088, 4>>
        /\ next_load = <<0, Zero>>
        /\ cop0.status = Zero /\ cop0.cause = Zero /\ cop0.epc = Zero
        /\ \A a \in DOMAIN ram : ram[a] = 0
        /\ mmu_read(S, Zero, 4) = Value(Zero)
        /\ mmu_read(S, <<31, 65532>>, 4) = Value(Zero)
        /\ cache_control = Zero
        /\ interrupt_status = 0 /\ interrupt_mask = 0
        /\ \A n \in 0..8 : memory_control[n] = Zero
        /\ ~fatal

\* The machine as constructed on the JAL + JR image, nothing executed yet.
C12_Witness ==
    /\ steps = 0 /\ last[1].op = "none"
    /\ bios = Image(JalProgram)
    /\ pc = START_PC /\ next_pc = At(4)
    /\ load_instruction(S) = Value(EncJ(3, At(32)))

\* The exact sum and difference of two words read as i32, as the pair of
\* a signed upper part and a lower half in 0..65535; whether such a pair
\* fits an i32, and the word of its low 32 bits.
SignedHigh(w) == IF w[1] >= 32768 THEN w[1] - 65536 ELSE w[1]
ExactSum(a, b) ==
    <<SignedHigh(a) + SignedHigh(b) + ((a[2] + b[2]) \div 65536),
      (a[2] + b[2]) % 65536>>
ExactDifference(a, b) ==
    <<SignedHigh(a) - SignedHigh(b) + ((a[2] - b[2]) \div 65536),
      (a[2] - b[2]) % 65536>>
FitsI32(x) == x[1] \in -32768..32767
LowWord(x) == <<x[1] % 65536, x[2]>>

\* The additive instructions: whether instruction i is checked (ADD, SUB,
\* ADDI) or wrapping (ADDU, SUBU, ADDIU), its destination register and its
\* exact result on the register file regs.
IsCheckedAdditive(i) ==
    \/ opcode(i) = 0 /\ secondary_opcode(i) \in {32, 34}
    \/ opcode(i) = 8
IsWrappingAdditive(i) ==
    \/ opcode(i) = 0 /\ secondary_opcode(i) \in {33, 35}
    \/ opcode(i) = 9
AdditiveTarget(i) == IF opcode(i) = 0 THEN d(i) ELSE t(i)
AdditiveResult(i, regs) ==
    IF opcode(i) \in {8, 9}
    THEN ExactSum(regs[s(i)], immediate_sign_extended(i))
    ELSE IF secondary_opcode(i) \in {32, 33}
    THEN ExactSum(regs[s(i)], regs[t(i)])
    ELSE ExactDifference(regs[s(i)], regs[t(i)])

\* Register r after the pending load is retired and nothing else written.
AfterRetirement(r) == IF next_load[1] = r THEN next_load[2] ELSE registers[r]

\* C13: ADD, SUB and ADDI are fatal exactly when the signed 32-bit result
\* overflows, and then the destination register is not written with a
\* result; when they do not overflow they write the exact signed result.
\* ADDU, SUBU and ADDIU are never fatal and write the result modulo 2^32.
C13_CheckedAndWrappingArithmetic ==
    [][/\ (CanFetch /\ IsCheckedAdditive(NextInstruction)) =>
            LET i == NextInstruction
                exact == AdditiveResult(i, registers)
            IN  /\ fatal' = ~FitsI32(exact)
                /\ registers'[AdditiveTarget(i)] =
                     IF FitsI32(exact) THEN LowWord(exact)
                     ELSE AfterRetirement(AdditiveTarget(i))
       /\ (CanFetch /\ IsWrappingAdditive(NextInstruction)) =>
            LET i == NextInstruction
            IN  /\ ~fatal'
                /\ registers'[AdditiveTarget(i)]
                     = LowWord(AdditiveResult(i, registers))
      ]_vars

\* ADD, SUB or ADDI has just overflowed: the step was fatal and left the
\* destination register as it was.
C13_Witness ==
    /\ last[1].op = "step" /\ last[1].fetched /\ ~last[1].ok
    /\ IsCheckedAdditive(last[1].instruction)
    /\ ~FitsI32(AdditiveResult(last[1].instruction, last[1].registers))
    /\ fatal
    /\ registers[AdditiveTarget(last[1].instruction)]
         = last[1].registers[AdditiveTarget(last[1].instruction)]

\* The exact 64-bit product of two words, by bytes: column k is the sum of
\* the products of the bytes i of a and k - i of b.
Term(a, b, i, k) ==
    IF (k - i) \in 0..3 THEN ByteOf(a, i) * ByteOf(b, k - i) ELSE 0
Column(a, b, k) ==
    Term(a, b, 0, k) + Term(a, b, 1, k) + Term(a, b, 2, k) + Term(a, b, 3, k)
RECURSIVE ProductBytes(_, _, _, _)
ProductBytes(a, b, k, carry) ==
    IF k = 8 THEN <<>>
    ELSE <<(Column(a, b, k) + carry) % 256>>
         \o ProductBytes(a, b, k + 1, (Column(a, b, k) + carry) \div 256)
ExactProduct(a, b) ==
    LET p == ProductBytes(a, b, 0, 0)
    IN  [low |-> FromBytes(p[1], p[2], p[3], p[4]),
         high |-> FromBytes(p[5], p[6], p[7], p[8])]

\* q and r are the quotient and the remainder of the unsigned words n and
\* dd: n = q * dd + r exactly, with r < dd.
UnsignedDivides(n, dd, q, r) ==
    /\ WLt(r, dd) /\ WLe(r, n)
    /\ ExactProduct(q, dd) = [low |-> WSub(n, r), high |-> Zero]

\* The sign and the magnitude of a word read as i32.
Negative(w) == w[1] >= 32768
Magnitude(w) == IF Negative(w) THEN WSub(Zero, w) ELSE w

\* q and r are the quotient, truncated toward zero, and the remainder of n
\* and dd read as i32.
SignedDivides(n, dd, q, r) ==
    /\ UnsignedDivides(Magnitude(n), Magnitude(dd), Magnitude(q), Magnitude(r))
    /\ q = Zero \/ Negative(q) = (Negative(n) # Negative(dd))
    /\ r = Zero \/ Negative(r) = Negative(n)

IsDIV(i) == opcode(i) = 0 /\ secondary_opcode(i) = 26
IsDIVU(i) == opcode(i) = 0 /\ secondary_opcode(i) = 27

\* C14: DIV and DIVU with a zero denominator, and DIV with numerator -2^31
\* and denominator -1, are fatal and leave HI and LO at their previous
\* values; in every other case DIV and DIVU complete with LO = quotient
\* (truncated toward zero) and HI = remainder; no other instruction changes
\* HI or LO.
C14_Division ==
    [][/\ (CanFetch /\ IsDIV(NextInstruction)) =>
            LET n == registers[s(NextInstruction)]
                dd == registers[t(NextInstruction)]
            IN  IF dd = Zero \/ (n = <<32768, 0>> /\ dd = <<65535, 65535>>)
                THEN fatal' /\ hi' = hi /\ lo' = lo
                ELSE ~fatal' /\ SignedDivides(n, dd, lo', hi')
       /\ (CanFetch /\ IsDIVU(NextInstruction)) =>
            LET n == registers[s(NextInstruction)]
                dd == registers[t(NextInstruction)]
            IN  IF dd = Zero
                THEN fatal' /\ hi' = hi /\ lo' = lo
                ELSE ~fatal' /\ UnsignedDivides(n, dd, lo', hi')
       /\ ~(CanFetch /\ (IsDIV(NextInstruction) \/ IsDIVU(NextInstruction)))
            => (hi' = hi /\ lo' = lo)
      ]_vars

\* DIV has just divided -7 by 2: LO = -3 and HI = -1.
C14_Witness ==
    /\ Executed(last[1]) /\ IsDIV(last[1].instruction)
    /\ last[1].registers[s(last[1].instruction)] = <<65535, 65529>>
    /\ last[1].registers[t(last[1].instruction)] = <<0, 2>>
    /\ lo = <<65535, 65533>> /\ hi = <<65535, 65535>>

----------------------------------------------------------------------------
(* The MMU's error cases, checked under SpecMMU.                           *)

\* The masked address lies in one of the regions that MMU::read or
\* MMU::write serves: RAM, Expansion 1, the nine memory-control words, the
\* RAM-size, interrupt, DMA, timer and SPU registers, Expansion 2, the BIOS
\* and the cache-control register.
InAddressMap(a) ==
    \/ InRange(a, RAM_START, RAM_END)
    \/ InRange(a, EXPANSION_1_START, EXPANSION_1_END)
    \/ InRangeIncl(a, IO_START, <<8064, 4128>>)
    \/ a \in {<<8064, 4192>>, <<8064, 4208>>, <<8064, 4212>>}
    \/ InRange(a, <<8064, 4224>>, <<8064, 4352>>)
    \/ InRange(a, <<8064, 4352>>, <<8064, 4399>>)
    \/ InRange(a, <<8064, 7168>>, <<8064, 7808>>)
    \/ InRange(a, EXPANSION_2_START, EXPANSION_2_END)
    \/ InRange(a, BIOS_START, BIOS_END)
    \/ a = CACHE_CONTROL

UnknownAddresses ==
    { a \in Addresses : ~InAddressMap(MEMORY_REGION_MASK(a)) }

\* The fields of the MMU in a machine state.
MmuState(m) ==
    <<m.bios, m.ram, m.memory_control, m.ram_size, m.cache_control,
      m.interrupt_status, m.interrupt_mask, m.timers>>

\* C15: unknown addresses are fatal.  In every reachable state, MMU::read
\* and MMU::write of an address whose masked physical address lies in none
\* of the regions of the address map (0x00200000, the scratchpad
\* 0x1F800000, 0x1F801024, 0xFFFE0000, through every segment) panic, and the
\* write changes no MMU state, in particular no memory-control word; a call
\* that was made at such an address has ended the process with the MMU as
\* it was constructed or as the call before left it.
C15_UnknownAddressesAreFatal ==
    /\ \A address \in UnknownAddresses, size \in Sizes :
          /\ ~mmu_read(S, address, size).ok
          /\ \A value \in StoredWords :
                /\ mmu_write(S, address, size, value).fatal
                /\ MmuState(mmu_write(S, address, size, value)) = MmuState(S)
    /\ (last[1].op \in {"read", "write"}
        /\ last[1].address \in UnknownAddresses) => fatal /\ ~last[1].ok

\* A write to the scratchpad through KSEG0 has just panicked after a write
\* to a memory-control word succeeded, and that word is still in place.
C15_Witness ==
    /\ steps = 2 /\ fatal
    /\ last[1].op = "write" /\ last[1].address = Alias(<<8064, 0>>, 1)
    /\ memory_control[0] = <<4386, 13124>>

----------------------------------------------------------------------------
(* The BIOS and Expansion 1 under stores, checked under Spec.              *)

\* The masked address lies in the BIOS or in Expansion 1.
InRom(a) ==
    \/ InRange(MEMORY_REGION_MASK(a), BIOS_START, BIOS_END)
    \/ InRange(MEMORY_REGION_MASK(a), EXPANSION_1_START, EXPANSION_1_END)

\* The first and last bytes of Expansion 1 and of the BIOS.
RomAddresses ==
    { <<7936, 0>>, <<8063, 65535>>, <<8128, 0>>, <<8135, 65535>> }

\* MMU::write at address panics and leaves the BIOS bytes in place.
WriteIsRefused(address, size) ==
    LET written == mmu_write(S, address, size, <<4386, 13124>>)
    IN  written.fatal /\ written.bios = bios

\* The step about to be taken executes SB, SH or SW at an address of the
\* BIOS or of Expansion 1.
StoreToRomNext ==
    /\ CanFetch
    /\ opcode(NextInstruction) \in {40, 41, 43}
    /\ InRom(WAdd(registers[s(NextInstruction)],
                  immediate_sign_extended(NextInstruction)))

\* Bit 16 of the COP0 status.
IsolationBit == cop0.status[1] % 2 = 1

\* C16: the BIOS image is read-only.  No step changes the BIOS bytes;
\* MMU::write at an address of the BIOS or of Expansion 1, through any
\* segment and with any size, panics; and SB, SH and SW at such an address
\* are fatal exactly when the cache is not isolated (an isolated store
\* does not reach the MMU).
C16_RomIsReadOnly ==
    [][/\ bios' = bios
       /\ \A a \in RomAddresses, k \in Segments, size \in Sizes :
             WriteIsRefused(Alias(a, k), size)
       /\ StoreToRomNext => (fatal' <=> ~IsolationBit)
      ]_vars

\* C16 as stated: every store at an address of the BIOS or of Expansion 1
\* is fatal.
C16_AnyStoreToRomIsFatal ==
    [][StoreToRomNext => fatal']_vars

\* A store to the BIOS through KSEG1 has just panicked, with the cache not
\* isolated and the BIOS bytes in place.
C16_Witness ==
    /\ last[1].op = "step" /\ last[1].fetched /\ ~last[1].ok
    /\ opcode(last[1].instruction) = 43
    /\ StoreAddress(last[1]) = START_PC
    /\ ~last[1].isolated
    /\ fatal

----------------------------------------------------------------------------
(* RFE, checked under Spec.                                                *)

\* The step about to be taken executes RFE.
RfeNext ==
    /\ CanFetch
    /\ opcode(NextInstruction) = 16
    /\ coprocessor_opcode(NextInstruction) = 16

\* C17: RFE pops the mode stack.  After RFE, bits 0..3 of the COP0 status
\* are its old bits 2..5 and bits 4..31 are unchanged (bits 4 and 5 keep
\* their values); the step is not fatal, cause, epc, HI and LO are
\* unchanged, the register file changes only by the retirement of the
\* pending load, and the PC pipeline only rotates: pc becomes next_pc and
\* next_pc advances by 4.
C17_RfePopsModeStack ==
    [][RfeNext =>
        /\ ~fatal'
        /\ cop0'.status[1] = cop0.status[1]
        /\ cop0'.status[2] = (cop0.status[2] - (cop0.status[2] % 16))
                             + (cop0.status[2] % 64) \div 4
        /\ cop0'.cause = cop0.cause /\ cop0'.epc = cop0.epc
        /\ hi' = hi /\ lo' = lo
        /\ registers' = [r \in 0..31 |-> AfterRetirement(r)]
        /\ next_load' = <<0, Zero>>
        /\ pc' = next_pc /\ next_pc' = WAdd(next_pc, <<0, 4>>)
      ]_vars

\* C17 as stated: after RFE the low 6 bits of the status are
\* (old_status & 0x3F) >> 2, so that bits 4 and 5 are 0, and bits 6..31 are
\* unchanged.
C17_RfeClearsBits4And5 ==
    [][RfeNext =>
        /\ cop0'.status[2] % 64 = (cop0.status[2] % 64) \div 4
        /\ cop0'.status[1] = cop0.status[1]
        /\ cop0'.status[2] \div 64 = cop0.status[2] \div 64
      ]_vars

\* RFE has just executed on the status 0x00000030, which no program
\* otherwise writes: the status is 0x0000003C, and the load that was pending
\* was retired.
C17_Witness ==
    /\ Executed(last[1])
    /\ opcode(last[1].instruction) = 16
    /\ coprocessor_opcode(last[1].instruction) = 16
    /\ cop0.status = <<0, 60>>
    /\ last[2].pending[1] = 2 /\ registers[2] = last[2].pending[2]

----------------------------------------------------------------------------
(* The PC pipeline and the branches, checked under Spec.                   *)

\* A word read as i32, and the 16-bit immediate read as i16.
SInt(w) == SignedHigh(w) * 65536 + w[2]
SignedImmediate(i) == IF i[2] >= 32768 THEN i[2] - 65536 ELSE i[2]

\* a + 4 * k modulo 2^32, for k in -32768..32767.
Displaced(a, k) ==
    <<(a[1] + ((a[2] + 4 * k) \div 65536)) % 65536, (a[2] + 4 * k) % 65536>>

IsBranch(i) ==
    opcode(i) \in {4, 5, 6, 7} \/ (opcode(i) = 1 /\ t(i) \in {0, 1})

\* The condition of the branch i on the register file regs, the registers
\* read as signed 32-bit values.
ConditionHolds(i, regs) ==
    CASE opcode(i) = 4 -> regs[s(i)] = regs[t(i)]
      [] opcode(i) = 5 -> regs[s(i)] # regs[t(i)]
      [] opcode(i) = 6 -> SInt(regs[s(i)]) <= 0
      [] opcode(i) = 7 -> SInt(regs[s(i)]) > 0
      [] opcode(i) = 1 /\ t(i) = 0 -> SInt(regs[s(i)]) < 0
      [] opcode(i) = 1 /\ t(i) = 1 -> SInt(regs[s(i)]) >= 0
      [] OTHER -> FALSE

\* The instruction i is J, JAL, JR, JALR or a branch taken on regs.
Transfers(i, regs) ==
    \/ opcode(i) \in {2, 3}
    \/ opcode(i) = 0 /\ secondary_opcode(i) \in {8, 9}
    \/ IsBranch(i) /\ ConditionHolds(i, regs)

\* The word of the BIOS image at an address of the first 64 KiB of the BIOS
\* through KSEG1.
BiosWord(a) ==
    <<bios[a[2] + 3] + 256 * bios[a[2] + 4],
      bios[a[2] + 1] + 256 * bios[a[2] + 2]>>

\* C18: PC pipeline rotation.  Every step that fetches an instruction sets
\* current_pc to the old pc and pc to the old next_pc, whatever the
\* instruction; next_pc becomes the old next_pc + 4 (mod 2^32) unless the
\* instruction is J, JAL, JR, JALR or a taken branch; and the instruction
\* executed is the one fetched at the pre-rotation pc: with the cache off,
\* the word of the BIOS at that address.
C18_PcRotation ==
    [][CanFetch =>
        /\ current_pc' = pc
        /\ pc' = next_pc
        /\ ~Transfers(NextInstruction, registers)
              => next_pc' = WAdd(next_pc, <<0, 4>>)
        /\ last'[1].pc = pc
        /\ last'[1].instruction = NextInstruction
        /\ (~CachedFetch(S) /\ pc[1] = START_PC[1])
              => last'[1].instruction = BiosWord(pc)
      ]_vars

\* The instruction in the delay slot of a taken jump has just executed:
\* the triple rotated from (pc, next_pc) = (slot, target) to
\* (current_pc, pc, next_pc) = (slot, target, target + 4).
C18_Witness ==
    /\ Executed(last[1]) /\ ~last[1].sequential
    /\ ~Transfers(last[1].instruction, last[1].registers)
    /\ current_pc = last[1].pc
    /\ pc = last[1].next_pc
    /\ pc # WAdd(current_pc, <<0, 4>>)
    /\ next_pc = WAdd(pc, <<0, 4>>)

\* C19: branch target.  BEQ, BNE, BLEZ, BGTZ, BLTZ and BGEZ are never
\* fatal; when the condition holds (BLEZ, BGTZ, BLTZ, BGEZ comparing R[s] as
\* a signed 32-bit value against 0) next_pc becomes P + (imm_se << 2) mod
\* 2^32, P being pc after the rotation, which for a branch at A outside a
\* delay slot of a taken transfer is A + 4 + (imm_se << 2); when the
\* condition is false next_pc is the fall-through value P + 4.
C19_BranchTarget ==
    [][(CanFetch /\ IsBranch(NextInstruction)) =>
        /\ ~fatal'
        /\ pc' = next_pc
        /\ ConditionHolds(NextInstruction, registers)
              => next_pc' = Displaced(next_pc, SignedImmediate(NextInstruction))
        /\ (ConditionHolds(NextInstruction, registers)
            /\ next_pc = WAdd(pc, <<0, 4>>))
              => next_pc' = Displaced(WAdd(pc, <<0, 4>>),
                                      SignedImmediate(NextInstruction))
        /\ ~ConditionHolds(NextInstruction, registers)
              => next_pc' = WAdd(next_pc, <<0, 4>>)
      ]_vars

\* BLEZ on -2^31 with offset -1 was just taken: next_pc is the address of
\* the branch itself, A + 4 - 4.
C19_Witness ==
    /\ Executed(last[1]) /\ last[1].sequential
    /\ opcode(last[1].instruction) = 6
    /\ last[1].instruction[2] = 65535
    /\ last[1].registers[s(last[1].instruction)] = <<32768, 0>>
    /\ next_pc = last[1].pc

----------------------------------------------------------------------------
(* The pending-load slot, checked under Spec.                              *)

\* The instruction i ends in setup_load: LB, LH, LW, LBU, LHU and the MFC0
\* of the status register.
SetsUpLoad(i) ==
    \/ opcode(i) \in {32, 33, 35, 36, 37}
    \/ opcode(i) = 16 /\ coprocessor_opcode(i) = 0 /\ d(i) = 12

\* C20: the pending-load slot on a load.  When a load into register t
\* executes without panicking while the slot holds (r, v): if r # t then v
\* is written to R[r] and no other register changes; if r = t the register
\* file does not change, so that v never reaches it; in both cases the slot
\* afterwards holds (t, new value), the new value being the status for MFC0
\* and the word of the BIOS for an LW from the BIOS with the cache not
\* isolated.
C20_PendingLoadSlot ==
    [][(CanFetch /\ SetsUpLoad(NextInstruction) /\ ~fatal') =>
        /\ next_load[1] # t(NextInstruction)
              => registers' = [registers EXCEPT ![next_load[1]] = next_load[2]]
        /\ next_load[1] = t(NextInstruction) => registers' = registers
        /\ next_load'[1] = t(NextInstruction)
        /\ opcode(NextInstruction) = 16 => next_load'[2] = cop0.status
        /\ (/\ opcode(NextInstruction) = 35
            /\ immediate(NextInstruction) = Zero
            /\ registers[s(NextInstruction)][1] = START_PC[1])
              => next_load'[2] = BiosWord(registers[s(NextInstruction)])
      ]_vars

\* LW R2 has just executed while an LW R2 was pending: the value that was
\* pending is not in R2, which is as before, and the slot holds the new load.
C20_Witness ==
    /\ Executed(last[1]) /\ Executed(last[2])
    /\ opcode(last[1].instruction) = 35 /\ t(last[1].instruction) = 2
    /\ last[2].pending[1] = 2 /\ last[2].pending[2] # Zero
    /\ registers[2] = last[1].registers[2]
    /\ registers[2] # last[2].pending[2]
    /\ next_load[1] = 2

-----------------------------------------------------------------------------
(* C21: instructions that are not loads retire the pending load.            *)

\* Instruction i is LUI.
IsLUI(i) == opcode(i) = 15

\* C21: every non-load instruction retires the pending load.  After a step
\* that executes, without panicking, an instruction other than LB, LBU, LH,
\* LHU, LW and MFC0, the pending-load slot is (0, 0), every register the
\* instruction does not write holds what it held before or, for the target
\* of the pending load, the pending value, and a register the instruction
\* writes holds the instruction's own result even when the pending load
\* targeted it (shown for LUI and the wrapping additions).
C21_NonLoadRetiresPendingLoad ==
    [][(CanFetch /\ ~IsLoad(NextInstruction) /\ ~IsMFC0(NextInstruction)
        /\ ~fatal') =>
        /\ next_load' = <<0, Zero>>
        /\ \A r \in (0..31) \ Targets(NextInstruction) :
              registers'[r] = AfterRetirement(r)
        /\ IsLUI(NextInstruction)
              => registers'[t(NextInstruction)]
                    = <<immediate(NextInstruction)[2], 0>>
        /\ IsWrappingAdditive(NextInstruction)
              => registers'[AdditiveTarget(NextInstruction)]
                    = LowWord(AdditiveResult(NextInstruction, registers))
      ]_vars

\* ADDIU R2, R0, 7 has just executed while a load of a different value into
\* R2 was pending: R2 holds 7 and the slot is empty.
C21_Witness ==
    /\ Executed(last[1]) /\ Executed(last[2])
    /\ last[1].instruction = EncI(9, 0, 2, 7)
    /\ last[2].pending[1] = 2
    /\ last[2].pending[2] # <<0, 7>>
    /\ last[1].registers[0] = Zero
    /\ registers[2] = <<0, 7>>
    /\ next_load = <<0, Zero>>

-----------------------------------------------------------------------------
(* C22: the byte and halfword loads.                                        *)

\* Instruction i is LB, LH, LBU or LHU, and the number of bytes it loads.
IsSubWordLoad(i) == opcode(i) \in {32, 33, 36, 37}
LoadedBytes(i) == IF opcode(i) \in {32, 36} THEN 1 ELSE 2

\* The physical address a lies in Expansion 1.
InExpansion1(a) == a[1] \in 7936..8063        \* 0x1F000000..0x1F7FFFFF

\* The little-endian value of the n bytes at physical address a, for a in
\* the BIOS or in Expansion 1 (which reads as all-ones).
BytesAt(a, n) ==
    IF InExpansion1(a)
    THEN IF n = 1 THEN 255 ELSE 65535
    ELSE LET offset == (a[1] - BIOS_START[1]) * 65536 + a[2]
         IN  IF n = 1 THEN bios[offset + 1]
             ELSE bios[offset + 1] + 256 * bios[offset + 2]

\* The n-byte value x (n = 1 or 2) zero-extended and sign-extended.
ZeroExtended(x) == <<0, x>>
SignExtended(x, n) ==
    IF n = 1
    THEN IF x >= 128 THEN <<65535, 65280 + x>> ELSE <<0, x>>
    ELSE IF x >= 32768 THEN <<65535, x>> ELSE <<0, x>>

\* C22: sub-word load extension.  Whenever LB, LH, LBU or LHU executes
\* without a fatal error, the slot afterwards holds, for R[t], the byte or
\* the halfword at the effective address R[s] + imm_se (mod 2^32): LBU a
\* value in 0..0xFF and LHU a value in 0..0xFFFF, zero-extended, LB the
\* byte sign-extended from bit 7 and LH the halfword sign-extended from bit
\* 15; this includes the loads from Expansion 1, which reads as all-ones.
\* (Stated for the addresses in the BIOS and in Expansion 1.)
C22_SubWordLoadExtension ==
    [][(CanFetch /\ IsSubWordLoad(NextInstruction) /\ ~fatal') =>
        LET i == NextInstruction
            address == MEMORY_REGION_MASK(
                           WAdd(registers[s(i)], immediate_sign_extended(i)))
            x == BytesAt(address, LoadedBytes(i))
        IN  InRom(address) =>
            /\ next_load'[1] = t(i)
            /\ opcode(i) \in {36, 37} => next_load'[2] = ZeroExtended(x)
            /\ opcode(i) \in {32, 33}
                  => next_load'[2] = SignExtended(x, LoadedBytes(i))
      ]_vars

-----------------------------------------------------------------------------
(* C23: MTC0.                                                               *)

\* Instruction i is MTC0.
IsMTC0(i) == opcode(i) = 16 /\ coprocessor_opcode(i) = 4

\* Bits 8 and 9 of the word w, as a number in 0..3, and the word w with
\* these two bits replaced by k.
Bits8And9(w) == (w[2] \div 256) % 4
WithBits8And9(w, k) == <<w[1], w[2] - Bits8And9(w) * 256 + k * 256>>

\* Only bits 8 and 9 of cause may be set, and epc is 0.
CauseAndEpcAreClean ==
    /\ cop0.cause = WithBits8And9(Zero, Bits8And9(cop0.cause))
    /\ cop0.epc = Zero

\* C23: MTC0.  An MTC0 to COP0 register 13 is not fatal and changes only
\* bits 8 and 9 of cause, which become those of R[t]; an MTC0 to register 12
\* is not fatal and sets status to R[t], leaving cause and epc; an MTC0 to
\* register 3, 5, 6, 7, 9 or 11 is not fatal and changes no COP0 state; an
\* MTC0 to any other COP0 register is fatal; and in every reachable state
\* cause & ~0x300 = 0 and epc = 0.
C23_MoveToCop0 ==
    [][/\ CauseAndEpcAreClean
       /\ CauseAndEpcAreClean'
       /\ (CanFetch /\ IsMTC0(NextInstruction)) =>
            LET r == d(NextInstruction)
                value == registers[t(NextInstruction)]
            IN  /\ r = 13 =>
                    /\ ~fatal'
                    /\ cop0' = [cop0 EXCEPT !.cause =
                                  WithBits8And9(cop0.cause, Bits8And9(value))]
                /\ r = 12 =>
                    /\ ~fatal'
                    /\ cop0' = [cop0 EXCEPT !.status = value]
                /\ r \in {3, 5, 6, 7, 9, 11} => ~fatal' /\ cop0' = cop0
                /\ r \notin {3, 5, 6, 7, 9, 11, 12, 13} => fatal'
      ]_vars

\* MTC0 R2, $13 with R2 = 0x1FF has just executed on a cause of 0x300 and a
\* status of 0x1FF: cause is 0x100 and status is as before.
C23_Witness ==
    /\ Executed(last[1])
    /\ last[1].instruction = EncCop0(4, 2, 13)
    /\ last[1].registers[2] = <<0, 511>>
    /\ cop0.cause = <<0, 256>>
    /\ cop0.status = <<0, 511>>
    /\ cop0.epc = Zero

-----------------------------------------------------------------------------
(* C24: MFC0 from status and from cause.                                    *)

\* The value of COP0 register r, for r = 12 (status) and r = 13 (cause).
Cop0Register(r) == IF r = 12 THEN cop0.status ELSE cop0.cause

\* The step h executed an MFC0 from COP0 register 12 or 13.
IsMoveFromStatusOrCause(h) ==
    /\ h.op = "step" /\ h.fetched
    /\ IsMFC0(h.instruction)
    /\ d(h.instruction) \in {12, 13}

\* C24: MFC0 from COP0 register 12 (status) and from register 13 (cause) is
\* not fatal and schedules the value of the register into the pending-load
\* slot for R[t]: the instruction that follows still finds the old R[t]
\* (unless a load into R[t] was already pending), and once a non-load
\* instruction has followed, R[t] holds the value.
C24_MoveFromCop0 ==
    [][/\ (CanFetch /\ IsMFC0(NextInstruction)
           /\ d(NextInstruction) \in {12, 13}) =>
            /\ ~fatal'
            /\ next_load' = <<t(NextInstruction),
                              Cop0Register(d(NextInstruction))>>
            /\ next_load[1] # t(NextInstruction)
                  => registers'[t(NextInstruction)]
                        = registers[t(NextInstruction)]
       /\ (/\ IsMoveFromStatusOrCause(last[2])
           /\ Executed(last[1]) /\ last[1].instruction = NOP) =>
            /\ last[2].ok
            /\ registers[t(last[2].instruction)] = last[2].pending[2]
      ]_vars

-----------------------------------------------------------------------------
(* C25: reads of 1, 2 and 4 bytes of RAM.                                   *)

\* The little-endian value of the size bytes of RAM at offset a, the upper
\* 32 - 8 * size bits zero.
RamValue(a, size) ==
    <<IF size = 4
      THEN RamByte(ram, a + 2) + 256 * RamByte(ram, a + 3)
      ELSE 0,
      IF size = 1
      THEN RamByte(ram, a)
      ELSE RamByte(ram, a) + 256 * RamByte(ram, a + 1)>>

\* C25: sub-word RAM reads.  While the machine runs, for every size in
\* {1, 2, 4} and every RAM address a with a + size <= 0x00200000, the last
\* bytes of RAM included, MMU::read(a, size) does not panic and returns the
\* little-endian value of exactly the size bytes at a..a+size-1, the upper
\* 32 - 8 * size bits zero.
C25_SubWordRamReads ==
    ~fatal =>
      \A a \in PhysicalAddresses, size \in Sizes :
         (InRange(a, RAM_START, RAM_END) /\ W2Nat(a) + size <= RAM_SIZE)
            => mmu_read(S, a, size) = Value(RamValue(W2Nat(a), size))

-----------------------------------------------------------------------------
(* C26, C27: the lines of the instruction cache.                            *)

\* The line of the cache the fetch at pc selects, before and after the step.
FetchedLine == CacheLine(instruction_cache, CacheLineOf(pc))
FetchedLineAfter == CacheLine(instruction_cache', CacheLineOf(pc))

\* The fetch at pc misses: the tag differs or the word is before the first
\* valid word of the line.
FetchMisses ==
    \/ FetchedLine.tag # CacheTagOf(pc)
    \/ FetchedLine.valid > CacheIndexOf(pc)

\* Word n of the line of pc in memory: MMU::read at (pc & ~0xF) + 4 * n.
MemoryWord(n) ==
    mmu_read(S, WAdd(pc, Nat2W(4 * (n - CacheIndexOf(pc)))), 4).value

\* C26: I-cache fill policy.  For a step that fetches its instruction and
\* does not execute a cache-isolated store: with the cache enabled and
\* pc < 0xA0000000, a fetch that misses returns the word of memory at pc and
\* leaves the line with tag = pc & 0x7FFFF000, valid = index and
\* data[index..3] equal to the memory words index..3 of the line, and a
\* fetch that hits returns data[index] of the line and leaves the line as it
\* was; with the cache disabled or pc >= 0xA0000000 the fetch returns
\* MMU::read(pc, 4) and leaves the cache unchanged.
C26_CacheFillPolicy ==
    [][(CanFetch /\ ~IsolatedStoreNext) =>
        /\ (CachedFetch(S) /\ FetchMisses) =>
              /\ NextInstruction = MemoryWord(CacheIndexOf(pc))
              /\ FetchedLineAfter.tag = CacheTagOf(pc)
              /\ FetchedLineAfter.valid = CacheIndexOf(pc)
              /\ \A n \in CacheIndexOf(pc)..3 :
                    FetchedLineAfter.data[n] = MemoryWord(n)
        /\ (CachedFetch(S) /\ ~FetchMisses) =>
              /\ NextInstruction = FetchedLine.data[CacheIndexOf(pc)]
              /\ FetchedLineAfter = FetchedLine
        /\ ~CachedFetch(S) =>
              /\ NextInstruction = mmu_read(S, pc, 4).value
              /\ instruction_cache' = instruction_cache
      ]_vars

\* C27 as stated: in every reachable state each of the 256 lines has valid
\* in 0..4, and valid = 4 for every line at reset.
C27_ValidIsAtMostFour ==
    \A n \in CacheLines :
       /\ CacheLine(instruction_cache, n).valid \in 0..4
       /\ steps = 0 => CacheLine(instruction_cache, n).valid = 4

\* C27: in every reachable state each of the 256 lines has valid in 0..4 or
\* valid = 0xFFFF, the value every line has at reset; a line with this
\* value misses on every fetch, so that every line misses on its first
\* fetch: the word fetched is the word of memory at pc.
C27_CacheLineValid ==
    [][/\ \A n \in CacheLines :
            /\ CacheLine(instruction_cache, n).valid
                  \in (0..4) \cup {65535}
            /\ CacheLine(instruction_cache', n).valid
                  \in (0..4) \cup {65535}
            /\ steps = 0 =>
                  CacheLine(instruction_cache, n).valid = 65535
       /\ (CanFetch /\ CachedFetch(S)
           /\ FetchedLine.valid = 65535) =>
              /\ FetchMisses
              /\ NextInstruction = MemoryWord(CacheIndexOf(pc))
      ]_vars

\* The word J 0x0 that the program stored at RAM address 0 has just been
\* fetched through the enabled cache, from a line whose valid is 0xFFFF and
\* whose tag, 0, is the tag of the address.
C27_Witness ==
    /\ Executed(last[1]) /\ last[1].cached
    /\ last[1].pc = Zero
    /\ last[1].instruction = <<2048, 0>>
    /\ CacheLine(instruction_cache, 0).valid = 65535
    /\ CacheLine(instruction_cache, 0).tag = CacheTagOf(last[1].pc)

-----------------------------------------------------------------------------
(* C28: the timers, checked under SpecMMU.                                  *)

\* The address of byte offset of the 16-byte block of timer n.
TIMERS_START == <<8064, 4352>>                    \* 0x1F801100
TimerAddress(n, offset) == WAdd(TIMERS_START, <<0, 16 * n + offset>>)

\* C28: timer writes.  While the machine runs, for each timer n: a write at
\* offset 0 of its 16-byte block changes only the counter of timer n, a
\* write at offset 8 changes only the target of timer n, and a write at any
\* other offset inside 0x1F801100..0x1F80112F panics; every read in the
\* range panics; and MMU::step changes no timer.
C28_TimerWrites ==
    ~fatal =>
      /\ \A n \in 0..2, size \in Sizes, value \in StoredWords :
            /\ mmu_write(S, TimerAddress(n, 0), size, value)
                 = [S EXCEPT !.timers[n].counter = value[2]]
            /\ mmu_write(S, TimerAddress(n, 8), size, value)
                 = [S EXCEPT !.timers[n].target = value[2]]
            /\ \A offset \in (1..15) \ {8} :
                  16 * n + offset < 47 =>
                     mmu_write(S, TimerAddress(n, offset), size, value).fatal
      /\ \A offset \in 0..46, size \in Sizes :
            ~mmu_read(S, WAdd(TIMERS_START, <<0, offset>>), size).ok
      /\ mmu_step(S, 1).timers = timers

-----------------------------------------------------------------------------
(* C29: the instruction cache is transparent.                               *)

\* CPU::step with the instruction read directly: MMU::read(pc, 4).
DirectStep(c) ==
    LET instruction == mmu_read(c, c.pc, 4)
    IN  IF ~instruction.ok THEN panic(c)
        ELSE LET done == execute(Rotate(c), instruction.value)
             IN  IF done.fatal THEN done ELSE mmu_step(done, 1)

\* The architectural state of the machine state m: everything but the
\* instruction cache.
Architectural(m) ==
    <<m.registers, m.current_pc, m.pc, m.next_pc, m.hi, m.lo, m.next_load,
      m.cop0, MmuState(m), m.fatal>>

\* C29: fetch transparency.  In every reachable state, whether or not the
\* instruction cache is enabled, a step that is fatal neither with the
\* fetch the CPU makes nor with a direct fetch executes the word
\* MMU::read(pc, 4) returns at that moment and ends in the architectural
\* state that the same step with a direct fetch ends in.
C29_FetchTransparency ==
    [][(~fatal /\ ~fatal' /\ ~DirectStep(S).fatal) =>
        /\ NextInstruction = mmu_read(S, pc, 4).value
        /\ last'[1].instruction = mmu_read(S, pc, 4).value
        /\ Architectural(S)' = Architectural(DirectStep(S))
      ]_vars

\* The second fetch at RAM address 0 through the enabled cache, after the
\* word there was overwritten with 0: the word executed is 0, the word of
\* memory, and not the J 0x0 that the first fetch at the address returned.
C29_Witness ==
    /\ Executed(last[1]) /\ last[1].cached
    /\ last[1].pc = Zero
    /\ last[1].instruction = Zero
    /\ Zero \in DOMAIN fetch_log
    /\ fetch_log[Zero] = <<2048, 0>>
    /\ mmu_read(S, Zero, 4) = Value(Zero)

=============================================================================
